---- MODULE Spec2Model ----
(***************************************************************************)
(* IAM role/policy automation: the CDK stack that provisions roles from a  *)
(* configuration (iam_cdk_app_stack.py and iam_cdk_app_stack-backup.py),   *)
(* the app entry point that merges configuration files per account         *)
(* (app.py), and the discovery scripts that list roles and policies of an  *)
(* account and write configuration files (iamConfigs/, scripts/).          *)
(***************************************************************************)
EXTENDS Integers, Sequences, FiniteSets, TLC

VARIABLES
    \* ---- IamRoleConfigStack construction
    variant,      \* "stack": iam_cdk_app_stack.py, "backup": iam_cdk_app_stack-backup.py
    file,         \* the configuration document as written (roles, iam_policies)
    roles,        \* the loaded role dicts, as the constructor holds them in memory
    idx,          \* position of the constructor's loop over the roles
    stackPc,      \* "roles" | "done" | "error"
    raised,       \* the exception that ended the constructor, or "none"
    ids,          \* construct ids already used in the stack's scope
    resources,    \* the AWS::IAM::* resources of the synthesized template, in creation order
    assume_role_policy_statements,  \* what create_assume_role_policy_statements returned last
    \* ---- app.py
    files,             \* the parsed *.yaml documents, in the order glob returns them
    fileIdx,           \* position of the loop that fills combined_configs
    combined_configs,  \* the dict account_id -> roles, as its items in insertion order
    stacks,            \* the IamRoleConfigStack(...) calls made so far
    appPc,             \* "merge" | "stacks" | "synth" | "error"
    \* ---- discovery scripts (iamConfigs/, scripts/)
    script,            \* the script whose main() runs
    iamRoles,          \* the account: what iam list_roles returns, in order
    cfStacks,          \* the account: its CloudFormation stacks and their resources
    iamPolicies,       \* the account: what iam list_policies(Scope='Local') returns
    dPc,               \* the call main() makes next, or "done" | "crashed"
    returned,          \* the roles list_roles returned before a provider error, if any
    get_role_failed,   \* the role names for which get_role answered with an error
    listed,            \* `roles` of main(): the result of list_iam_roles
    cf_stack_roles,    \* the result of list_cf_stack_roles
    roles_data,        \* the role details get_iam_role_state returned
    cf_policy_arns,    \* the result of list_cf_stack_policies
    customer_managed_policies,  \* the result of list_customer_managed_policies
    policies_data,     \* the policy details get_policy_details returned
    written,           \* the files written, in order: [name, content]
    first_run,         \* <<>>, or what an earlier run of the script on the account got and wrote
    main_account_id,   \* `account_id` of main(): "" before get_account_id and when it returned None
    \* ---- the file appenders (appendnewscript.append_to_yaml_file, append.py)
    program,           \* which appender runs
    disk,              \* the files on disk: name -> content
    original,          \* the disk before the first call
    calls,             \* the arguments of the calls made so far, in order
    fPc                \* "ready" | "raised": whether a call ended in a traceback

stackVars == <<variant, file, roles, idx, stackPc, raised, ids, resources,
              assume_role_policy_statements>>

appVars == <<files, fileIdx, combined_configs, stacks, appPc>>

envVars == <<script, iamRoles, cfStacks, iamPolicies, first_run, main_account_id>>

discVars == <<script, iamRoles, cfStacks, iamPolicies, first_run, main_account_id, dPc, returned, get_role_failed, listed, cf_stack_roles,
              roles_data, cf_policy_arns, customer_managed_policies, policies_data, written>>

fileVars == <<program, disk, original, calls, fPc>>

vars == <<variant, file, roles, idx, stackPc, raised, ids, resources, assume_role_policy_statements,
          files, fileIdx, combined_configs, stacks, appPc,
          script, iamRoles, cfStacks, iamPolicies, first_run, main_account_id, dPc, returned, get_role_failed, listed, cf_stack_roles,
          roles_data, cf_policy_arns, customer_managed_policies, policies_data, written,
          program, disk, original, calls, fPc>>

(***************************************************************************)
(* Python values.  A dict is a function from strings; a list is a          *)
(* sequence.  Where the code inspects the type of a value (isinstance), the *)
(* value carries its type as the one field of a record.                     *)
(***************************************************************************)
S(s) == [str |-> s]
L(q) == [list |-> q]
N(n) == [int |-> n]
None == [null |-> TRUE]
EmptyDict == [k \in {} |-> TRUE]

IsStr(v) == "str" \in DOMAIN v
IsList(v) == "list" \in DOMAIN v
IsInt(v) == "int" \in DOMAIN v
IsNone(v) == "null" \in DOMAIN v

Get(d, k, default) == IF k \in DOMAIN d THEN d[k] ELSE default
Put(d, k, v) == [x \in (DOMAIN d) \cup {k} |-> IF x = k THEN v ELSE d[x]]
Del(d, k) == [x \in (DOMAIN d) \ {k} |-> d[x]]

\* str.startswith, the `in` operator on two strings, str.isdigit
StartsWith(s, p) == Len(s) >= Len(p) /\ SubSeq(s, 1, Len(p)) = p
Contains(s, sub) == \E i \in 1..(Len(s) - Len(sub) + 1) : SubSeq(s, i, i + Len(sub) - 1) = sub
Digits == {"0", "1", "2", "3", "4", "5", "6", "7", "8", "9"}
isdigit(s) == Len(s) > 0 /\ \A i \in 1..Len(s) : SubSeq(s, i, i) \in Digits

\* str(n) of a non-negative int
DigitStr(d) == CASE d = 0 -> "0" [] d = 1 -> "1" [] d = 2 -> "2" [] d = 3 -> "3" [] d = 4 -> "4"
                 [] d = 5 -> "5" [] d = 6 -> "6" [] d = 7 -> "7" [] d = 8 -> "8" [] d = 9 -> "9"
RECURSIVE IntStr(_)
IntStr(n) == IF n < 10 THEN DigitStr(n) ELSE IntStr(n \div 10) \o DigitStr(n % 10)

Range(q) == {q[i] : i \in 1..Len(q)}
SeqsUpTo(X, n) == UNION {[1..k -> X] : k \in 0..n}

(***************************************************************************)
(* Configuration documents the stack is built from.                        *)
(***************************************************************************)
MaxRoles == 2        \* role entries per configuration
MaxPolicies == 1     \* iam_policies entries per configuration

RoleNames == {"TestRole", "TestRoleWithCondition"}
ManagedArn1 == "arn:aws:iam::aws:policy/AmazonEC2FullAccess"
ManagedArn2 == "arn:aws:iam::aws:policy/ReadOnlyAccess"

TrustService ==
    [Effect |-> "Allow", Principal |-> [Service |-> S("ec2.amazonaws.com")],
     Action |-> "sts:AssumeRole"]
TrustCondition ==
    [Effect |-> "Allow", Principal |-> [AWS |-> S("arn:aws:iam::111122223333:root")],
     Action |-> "sts:AssumeRole",
     Condition |-> [StringEquals |-> ("sts:ExternalId" :> S("12345"))]]
TrustOrg ==
    [Effect |-> "Allow",
     Principal |-> [AWS |-> L(<<"123456789012", "arn:aws:iam::111122223333:role/Admin">>)],
     Action |-> "sts:AssumeRole",
     Condition |-> [StringEquals |-> ("aws:PrincipalOrgID" :> S("o-exampleorg")),
                    Bool |-> ("aws:MultiFactorAuthPresent" :> S("true"))]]
TrustAccountNumber ==
    [Effect |-> "Allow", Principal |-> [AWS |-> N(1234)], Action |-> "sts:AssumeRole"]
TrustFederated ==
    [Effect |-> "Allow",
     Principal |-> [Federated |-> S("arn:aws:iam::111122223333:saml-provider/Idp"),
                    Service |-> S("ec2.amazonaws.com")],
     Action |-> "sts:AssumeRoleWithSAML"]
BoundaryArn == "arn:aws:iam::111122223333:policy/Boundary"
TrustPolicy(stmts) == [Version |-> "2012-10-17", Statement |-> L(stmts)]

StmtAllow == [Effect |-> "Allow", Action |-> S("s3:ListBucket"), Resource |-> S("*")]
StmtDenyEmptyCondition ==
    [Effect |-> "Deny", Action |-> L(<<"s3:DeleteBucket", "s3:DeleteObject">>),
     Resource |-> L(<<"arn:aws:s3:::example-bucket">>), Condition |-> EmptyDict]
PolicyDoc(stmts) == [Version |-> "2012-10-17", Statement |-> stmts]

BaseRole(n) == [roleName |-> n, trustPolicy |-> TrustPolicy(<<TrustService>>)]

RoleEntriesNamed(n) ==
    LET b == BaseRole(n) IN
    { b,
      Del(b, "trustPolicy"),
      Put(Del(b, "trustPolicy"), "deletionPolicy", "RETAIN"),
      Put(b, "trustPolicy", TrustPolicy(<<TrustCondition>>)),
      Put(b, "externalIds", <<"ext-1">>),
      Put(Put(b, "trustPolicy", TrustPolicy(<<TrustCondition>>)), "externalIds", <<"ext-1">>),
      Put(b, "managedPolicies", <<ManagedArn1>>),
      Put(b, "managedPolicies", <<ManagedArn2, ManagedArn1>>),
      Put(b, "inlinePolicies", [dict |-> ("s3ReadOnlyPolicy" :> PolicyDoc(<<StmtAllow>>))]),
      Put(b, "inlinePolicies",
          [dict |-> ("s3ReadOnlyPolicy" :> PolicyDoc(<<StmtAllow, StmtDenyEmptyCondition>>))]),
      Put(b, "inlinePolicies",
          L(<<[policyName |-> "s3ReadOnlyPolicy",
               policyDocument |-> PolicyDoc(<<StmtAllow, StmtDenyEmptyCondition>>)]>>)),
      Put(b, "deletionPolicy", "RETAIN"),
      Put(Put(b, "trustPolicy", TrustPolicy(<<TrustOrg, TrustService>>)), "externalIds", <<"ext-1", "ext-2">>),
      Put(b, "trustPolicy", TrustPolicy(<<TrustOrg, TrustAccountNumber>>)),
      Put(b, "trustPolicy", TrustPolicy(<<TrustFederated>>)),
      Put(b, "permissionBoundary", BoundaryArn),
      Put(b, "permissionsBoundary", BoundaryArn),
      Put(b, "inlinePolicies", L(<<[policyName |-> "s3ReadOnlyPolicy", policyDocument |-> PolicyDoc(<<StmtAllow>>)]>>)),
      Put(b, "inlinePolicies", L(<<[policyName |-> "emptyPolicy", policyDocument |-> None]>>)),
      Put(b, "inlinePolicies", L(<<[policyName |-> "emptyPolicy", policyDocument |-> EmptyDict]>>)),
      Put(b, "inlinePolicies", [dict |-> ("emptyPolicy" :> None)]),
      Put(b, "inlinePolicies", [dict |-> ("emptyPolicy" :> EmptyDict)]),
      Put(b, "tags", <<[key |-> "Environment", value |-> "Test"], [key |-> "Owner", value |-> "Ops"]>>),
      Put(Put(b, "tags", <<>>), "managedPolicies", <<ManagedArn1>>),
      Put(b, "tags", <<[key |-> "Environment", value |-> "Test"], [key |-> "Environment", value |-> "Prod"]>>),
      Put(b, "trustPolicy", [Version |-> "2012-10-17"]),
      Put(b, "trustPolicy", [Version |-> "2012-10-17", Statement |-> [dict |-> TrustService]]) }

RoleEntries == UNION {RoleEntriesNamed(n) : n \in RoleNames}

PolicyEntries ==
    { [policyName |-> "TestManagedPolicy",
       policyDocument |-> PolicyDoc(<<[Effect |-> "Allow", Action |-> L(<<"s3:ListBucket">>),
                                      Resource |-> L(<<"arn:aws:s3:::example-bucket">>)]>>)] }

Configurations ==
    [roles : SeqsUpTo(RoleEntries, MaxRoles), iam_policies : SeqsUpTo(PolicyEntries, MaxPolicies)]

(***************************************************************************)
(* iam_cdk_app_stack.py: the role is an iam.Role built from principals.    *)
(***************************************************************************)
ServicePrincipal(sp) == [Service |-> S(sp)]
ArnPrincipal(arn) == [AWS |-> S(arn)]

\* a scalar (str, or int through str()) becomes a one-element list
AsStrList(v) ==
    IF IsStr(v) THEN <<v.str>> ELSE IF IsInt(v) THEN <<IntStr(v.int)>> ELSE v.list

get_principals_from_statement(statement) ==
    IF "Principal" \notin DOMAIN statement THEN <<>>
    ELSE LET principal_section == statement.Principal
             service_principals ==
                 IF "Service" \in DOMAIN principal_section
                 THEN AsStrList(principal_section.Service) ELSE <<>>
             aws_principals ==
                 IF "AWS" \in DOMAIN principal_section
                 THEN AsStrList(principal_section.AWS) ELSE <<>>
         IN [i \in 1..Len(service_principals) |-> ServicePrincipal(service_principals[i])]
            \o [i \in 1..Len(aws_principals) |->
                  IF isdigit(aws_principals[i])
                  THEN ArnPrincipal("arn:aws:iam::" \o aws_principals[i] \o ":root")
                  ELSE ArnPrincipal(aws_principals[i])]

\* the external ids put in place of the configured conditions
InjectExternalIds_Replace(conditions, external_ids) ==
    IF Len(external_ids) > 0
    THEN [StringEquals |-> ("sts:ExternalId" :> L(external_ids))]
    ELSE conditions

\* lines 89-92: the conditions dict after the external ids are written into it
InjectExternalIds(conditions, external_ids) ==
    IF Len(external_ids) > 0
    THEN Put(conditions, "StringEquals",
             Put(Get(conditions, "StringEquals", EmptyDict), "sts:ExternalId", L(external_ids)))
    ELSE conditions

\* the iam.PolicyStatement objects, one per configured statement
create_assume_role_policy_statements(trust_policy, external_ids) ==
    LET stmts == trust_policy.Statement.list IN
    [i \in 1..Len(stmts) |->
        [actions |-> <<"sts:AssumeRole">>,
         principals |-> get_principals_from_statement(stmts[i]),
         conditions |-> InjectExternalIds(Get(stmts[i], "Condition", EmptyDict), external_ids),
         effect |-> "Allow"]]

\* `conditions` is the statement's own Condition dict when it has one, so the
\* writes of lines 91-92 land in the configuration entry
TrustPolicyAfterBuild(trust_policy, external_ids) ==
    LET stmts == trust_policy.Statement.list IN
    Put(trust_policy, "Statement",
        L([i \in 1..Len(stmts) |->
             IF "Condition" \in DOMAIN stmts[i]
             THEN Put(stmts[i], "Condition", InjectExternalIds(stmts[i].Condition, external_ids))
             ELSE stmts[i]]))

\* CDK renders a one-element list of actions or resources as a scalar
RenderList(q) == IF Len(q) = 1 THEN S(q[1]) ELSE L(q)
ListOf(v) == IF IsList(v) THEN v.list ELSE <<v.str>>

RECURSIVE SelectSeq2(_, _)
SelectSeq2(q, keep) ==
    IF Len(q) = 0 THEN <<>>
    ELSE (IF keep[1] THEN <<q[1]>> ELSE <<>>) \o SelectSeq2(Tail(q), Tail(keep))

\* lines 137-145: the document built for one {policyName, policyDocument} entry
InlineDocument(policy) ==
    LET stmts == policy.policyDocument.Statement
        kept == SelectSeq2(stmts, [i \in 1..Len(stmts) |->
                    /\ "Action" \in DOMAIN stmts[i]
                    /\ "Resource" \in DOMAIN stmts[i]
                    /\ "Principal" \notin DOMAIN stmts[i]])
    IN [Version |-> "2012-10-17",
        Statement |-> [i \in 1..Len(kept) |->
            [Effect |-> "Allow",
             Action |-> RenderList(ListOf(kept[i].Action)),
             Resource |-> RenderList(ListOf(kept[i].Resource))]]]

\* iterating a dict yields its keys, and `'policyName' in key` is a substring test
create_inline_policies(inline_policies_config) ==
    IF IsList(inline_policies_config)
    THEN LET q == inline_policies_config.list
             used == {i \in 1..Len(q) : "policyName" \in DOMAIN q[i] /\ "policyDocument" \in DOMAIN q[i]}
         IN IF \E i \in used : IsNone(q[i].policyDocument)
            THEN [error |-> "TypeError", policies |-> EmptyDict]
            ELSE IF \E i \in used : "Statement" \notin DOMAIN q[i].policyDocument
            THEN [error |-> "KeyError", policies |-> EmptyDict]
            ELSE [error |-> "none",
                  policies |-> [n \in {q[i].policyName : i \in used} |->
                      InlineDocument(q[CHOOSE i \in used :
                          /\ q[i].policyName = n
                          /\ \A j \in used : q[j].policyName = n => j <= i])]]
    ELSE IF \E k \in DOMAIN inline_policies_config.dict :
                Contains(k, "policyName") /\ Contains(k, "policyDocument")
         THEN [error |-> "TypeError", policies |-> EmptyDict]
         ELSE [error |-> "none", policies |-> EmptyDict]

\* line 61: the principals of all statements, flattened
RECURSIVE Flatten(_)
Flatten(q) == IF Len(q) = 0 THEN <<>> ELSE Head(q) \o Flatten(Tail(q))
FlatPrincipals(statements) == Flatten([i \in 1..Len(statements) |-> statements[i].principals])

Opt(present, k, v) == IF present THEN k :> v ELSE EmptyDict

\* Tags.of(iam_role).add(key, value) for each configured tag to the wrong side
TagsOf_SwapKeyValue(tags) ==
    {[Key |-> tags[i].value, Value |-> tags[i].key] : i \in 1..Len(tags)}

\* lines 75-77: Tags.of(iam_role).add(key, value) for each configured tag, in
\* order; a key added again replaces the value added before
TagsOf(tags) ==
    {[Key |-> tags[i].key,
      Value |-> tags[CHOOSE j \in 1..Len(tags) :
          tags[j].key = tags[i].key /\ \A m \in 1..Len(tags) : tags[m].key = tags[i].key => m <= j].value]
     : i \in 1..Len(tags)}

\* the template properties iam.Role renders (lines 63-77)
RoleProperties(role, statements, inline_policies) ==
    LET flat == FlatPrincipals(statements)
        tags == Get(role, "tags", <<>>)
    IN  [RoleName |-> role.roleName,
         AssumeRolePolicyDocument |->
            [Version |-> "2012-10-17",
             Statement |-> L([i \in 1..Len(flat) |->
                 [Effect |-> "Allow", Action |-> "sts:AssumeRole", Principal |-> flat[i]]])],
         MaxSessionDuration |-> Get(role, "sessionDuration", 3600)]
        @@ Opt(Len(Get(role, "managedPolicies", <<>>)) > 0, "ManagedPolicyArns", Get(role, "managedPolicies", <<>>))
        @@ Opt(DOMAIN inline_policies # {}, "Policies", inline_policies)
        @@ Opt("description" \in DOMAIN role, "Description", Get(role, "description", ""))
        @@ Opt("iamPath" \in DOMAIN role, "Path", Get(role, "iamPath", ""))
        @@ Opt("permissionBoundary" \in DOMAIN role, "PermissionsBoundary", Get(role, "permissionBoundary", ""))
        @@ Opt("tags" \in DOMAIN role /\ Len(tags) > 0, "Tags", TagsOf(tags))

\* app.py before it has read any file
AppIdle ==
    /\ files = <<>>
    /\ fileIdx = 1
    /\ combined_configs = <<>>
    /\ stacks = <<>>
    /\ appPc = "synth"

\* no discovery script running
DiscoveryIdle ==
    /\ script = "none"
    /\ iamRoles = <<>>
    /\ cfStacks = <<>>
    /\ iamPolicies = <<>>
    /\ first_run = <<>>
    /\ main_account_id = ""
    /\ dPc = "done"
    /\ returned = <<>>
    /\ get_role_failed = {}
    /\ listed = <<>>
    /\ cf_stack_roles = <<>>
    /\ roles_data = <<>>
    /\ cf_policy_arns = <<>>
    /\ customer_managed_policies = <<>>
    /\ policies_data = <<>>
    /\ written = <<>>

\* a scope that accepts a second construct under an id it already holds
ConstructIdTaken_Never(scope_ids, id) == FALSE

\* iam.Role(self, role['roleName'], ...) and iam.CfnRole(self, role['roleName'],
\* ...): the scope refuses an id one of its constructs already has
ConstructIdTaken(scope_ids, id) == id \in scope_ids

\* no appender has been started
FilesIdle ==
    /\ program = "none"
    /\ disk = EmptyDict
    /\ original = EmptyDict
    /\ calls = <<>>
    /\ fPc = "ready"

Abort(error, rolesAfter, idsAfter) ==
    /\ stackPc' = "error"
    /\ raised' = error
    /\ roles' = rolesAfter
    /\ ids' = idsAfter
    /\ UNCHANGED <<variant, file, idx, resources>>
    /\ UNCHANGED <<appVars, discVars, fileVars>>

Created(resource, rolesAfter, idsAfter) ==
    /\ resources' = Append(resources, resource)
    /\ roles' = rolesAfter
    /\ ids' = idsAfter
    /\ idx' = idx + 1
    /\ stackPc' = IF idx = Len(roles) THEN "done" ELSE "roles"
    /\ UNCHANGED <<variant, file, raised>>
    /\ UNCHANGED <<appVars, discVars, fileVars>>

\* line 41 demanding more than one statement as well
TrustPolicyRejected_SingleStatement(trust_policy) ==
    \/ "Statement" \notin DOMAIN trust_policy
    \/ ~IsList(trust_policy.Statement)
    \/ Len(trust_policy.Statement.list) < 2

\* line 41: 'Statement' not in trust_policy or not isinstance(..., list)
TrustPolicyRejected(trust_policy) ==
    \/ "Statement" \notin DOMAIN trust_policy
    \/ ~IsList(trust_policy.Statement)

\* one iteration of the constructor's loop: create_iam_role(role)
CreateIamRole ==
    /\ variant = "stack"
    /\ stackPc = "roles"
    /\ LET role == roles[idx]
           trust_policy == Get(role, "trustPolicy", EmptyDict)
       IN IF TrustPolicyRejected(trust_policy)
          THEN Abort("ValueError", roles, ids) /\ UNCHANGED assume_role_policy_statements
          ELSE
          LET external_ids == Get(role, "externalIds", <<>>)
              statements == create_assume_role_policy_statements(trust_policy, external_ids)
              built == [roles EXCEPT ![idx] =
                           Put(role, "trustPolicy", TrustPolicyAfterBuild(trust_policy, external_ids))]
              mps == Get(role, "managedPolicies", <<>>)
              mids == [i \in 1..Len(mps) |-> "ManagedPolicy" \o role.roleName \o mps[i]]
              inline == create_inline_policies(Get(role, "inlinePolicies", L(<<>>)))
              hasBoundary == "permissionBoundary" \in DOMAIN role
              bid == "BoundaryPolicy" \o role.roleName
              ids1 == ids \cup Range(mids)
              ids2 == ids1 \cup (IF hasBoundary THEN {bid} ELSE {})
              duration == Get(role, "sessionDuration", 3600)
          IN /\ assume_role_policy_statements' = statements
             /\ IF (Range(mids) \cap ids # {}) \/ Cardinality(Range(mids)) < Len(mids)
                 THEN Abort("RuntimeError", built, ids1)
                 ELSE IF inline.error # "none"
                 THEN Abort(inline.error, built, ids1)
                 ELSE IF hasBoundary /\ bid \in ids1
                 THEN Abort("RuntimeError", built, ids1)
                 ELSE IF Len(FlatPrincipals(statements)) = 0
                 THEN Abort("RuntimeError", built, ids2)
                 ELSE IF ConstructIdTaken(ids2, role.roleName)
                 THEN Abort("RuntimeError", built, ids2)
                 ELSE IF duration < 3600 \/ duration > 43200
                 THEN Abort("RuntimeError", built, ids2 \cup {role.roleName})
                 ELSE Created([Type |-> "AWS::IAM::Role",
                               Properties |-> RoleProperties(role, statements, inline.policies)],
                              built, ids2 \cup {role.roleName})

(***************************************************************************)
(* iam_cdk_app_stack-backup.py: the role is an iam.CfnRole that takes the   *)
(* trust policy and the inline policy documents as written.                *)
(***************************************************************************)
Truthy(doc) == ~IsNone(doc) /\ DOMAIN doc # {}

\* lines 76-78: empty Condition entries are deleted from the document's statements
StripEmptyConditions(policy_document) ==
    IF "Statement" \notin DOMAIN policy_document THEN policy_document
    ELSE LET stmts == policy_document.Statement IN
         Put(policy_document, "Statement",
             [i \in 1..Len(stmts) |->
                 IF "Condition" \in DOMAIN stmts[i] /\ DOMAIN stmts[i].Condition = {}
                 THEN Del(stmts[i], "Condition") ELSE stmts[i]])

\* the PolicyProperty list, as policy_name -> policy_document
create_inline_policies_backup(inline_policies_config) ==
    IF "dict" \in DOMAIN inline_policies_config
    THEN LET d == inline_policies_config.dict IN
         [n \in {k \in DOMAIN d : Truthy(d[k])} |-> StripEmptyConditions(d[n])]
    ELSE EmptyDict

\* the deletion of line 78 is made in the configuration's own document
InlineConfigAfterBuild(inline_policies_config) ==
    IF "dict" \in DOMAIN inline_policies_config
    THEN LET d == inline_policies_config.dict IN
         [dict |-> [n \in DOMAIN d |-> IF Truthy(d[n]) THEN StripEmptyConditions(d[n]) ELSE d[n]]]
    ELSE inline_policies_config

\* role_properties that leave managed_policy_arns out
RolePropertiesBackup_NoManagedPolicies(role, inline_policies) ==
    [AssumeRolePolicyDocument |-> Get(role, "trustPolicy", EmptyDict),
     RoleName |-> role.roleName]
    @@ Opt(DOMAIN inline_policies # {}, "Policies", inline_policies)

\* role_properties, lines 33-52
RolePropertiesBackup(role, inline_policies) ==
    LET tags == Get(role, "tags", <<>>) IN
    [AssumeRolePolicyDocument |-> Get(role, "trustPolicy", EmptyDict),
     RoleName |-> role.roleName]
    @@ Opt("description" \in DOMAIN role, "Description", Get(role, "description", ""))
    @@ Opt("sessionDuration" \in DOMAIN role, "MaxSessionDuration", Get(role, "sessionDuration", 0))
    @@ Opt("iamPath" \in DOMAIN role, "Path", Get(role, "iamPath", ""))
    @@ Opt("permissionsBoundary" \in DOMAIN role, "PermissionsBoundary", Get(role, "permissionsBoundary", ""))
    @@ Opt("managedPolicies" \in DOMAIN role /\ Len(Get(role, "managedPolicies", <<>>)) > 0,
           "ManagedPolicyArns", Get(role, "managedPolicies", <<>>))
    @@ Opt(DOMAIN inline_policies # {}, "Policies", inline_policies)
    @@ Opt("tags" \in DOMAIN role /\ Len(tags) > 0, "Tags",
           {[Key |-> tags[i].key, Value |-> tags[i].value] : i \in 1..Len(tags)})

\* lines 59-61
DeletionPolicyOf(role) ==
    Opt(Get(role, "deletionPolicy", "") = "RETAIN", "DeletionPolicy", "Retain")

CreateIamRoleBackup ==
    /\ variant = "backup"
    /\ stackPc = "roles"
    /\ UNCHANGED assume_role_policy_statements
    /\ LET role == roles[idx]
           config == Get(role, "inlinePolicies", [dict |-> EmptyDict])
           inline_policies == create_inline_policies_backup(config)
           built == IF "inlinePolicies" \in DOMAIN role
                    THEN [roles EXCEPT ![idx] = Put(role, "inlinePolicies", InlineConfigAfterBuild(config))]
                    ELSE roles
       IN IF ConstructIdTaken(ids, role.roleName)
          THEN Abort("RuntimeError", built, ids)
          ELSE Created([Type |-> "AWS::IAM::Role",
                        Properties |-> RolePropertiesBackup(role, inline_policies)]
                       @@ DeletionPolicyOf(role),
                       built, ids \cup {role.roleName})

InitStack ==
    /\ variant \in {"stack", "backup"}
    /\ file \in Configurations
    /\ roles = file.roles
    /\ idx = 1
    /\ stackPc = IF Len(file.roles) = 0 THEN "done" ELSE "roles"
    /\ raised = "none"
    /\ ids = {}
    /\ resources = <<>>
    /\ assume_role_policy_statements = <<>>
    /\ AppIdle
    /\ DiscoveryIdle
    /\ FilesIdle

NextStack ==
    \/ CreateIamRole
    \/ CreateIamRoleBackup

SpecStack == InitStack /\ [][NextStack]_vars

(***************************************************************************)
(* Properties of the provisioned roles.  resources[k] is the role built     *)
(* from file.roles[k]: the constructor creates the roles in order and stops *)
(* at the first exception.                                                  *)
(***************************************************************************)
ConfiguredStatements(entry) ==
    LET tp == Get(entry, "trustPolicy", EmptyDict) IN
    IF "Statement" \in DOMAIN tp /\ IsList(tp.Statement) THEN tp.Statement.list ELSE <<>>

ProvisionedStatements(resource) ==
    LET d == resource.Properties.AssumeRolePolicyDocument IN
    IF "Statement" \in DOMAIN d /\ IsList(d.Statement) THEN d.Statement.list ELSE <<>>

\* the principals a statement names, an account id read as the account's root ARN
PrincipalPairs(stmt) ==
    IF "Principal" \notin DOMAIN stmt THEN {}
    ELSE UNION {{IF t = "AWS" /\ isdigit(v) THEN <<t, "arn:aws:iam::" \o v \o ":root">> ELSE <<t, v>>
                    : v \in Range(AsStrList(stmt.Principal[t]))}
                : t \in DOMAIN stmt.Principal}

\* the Condition block a configured statement asks for: its own Condition, with
\* StringEquals sts:ExternalId set when the role lists externalIds
ConfiguredCondition(entry, stmt) ==
    LET own == Get(stmt, "Condition", EmptyDict)
        ext == Get(entry, "externalIds", <<>>)
    IN IF Len(ext) = 0 THEN own
       ELSE Put(own, "StringEquals",
                Put(Get(own, "StringEquals", EmptyDict), "sts:ExternalId", L(ext)))

\* C1: every provisioned role's assume-role policy document holds, for each
\* configured trust statement and each of its principals, a statement that names
\* the principal and carries the statement's Condition block (the configured
\* one, with the external-id condition when externalIds is given).
C1_TrustConditionsProvisioned ==
    \A k \in 1..Len(resources) :
        LET entry == file.roles[k]
            configured == ConfiguredStatements(entry)
            provisioned == ProvisionedStatements(resources[k])
        IN \A i \in 1..Len(configured) :
               \A p \in PrincipalPairs(configured[i]) :
                   \E j \in 1..Len(provisioned) :
                       /\ p \in PrincipalPairs(provisioned[j])
                       /\ Get(provisioned[j], "Condition", EmptyDict)
                              = ConfiguredCondition(entry, configured[i])

\* the configured inline policies of a role entry, as <<name, document>> pairs
ConfiguredInline(entry) ==
    LET c == Get(entry, "inlinePolicies", [dict |-> EmptyDict]) IN
    IF "dict" \in DOMAIN c
    THEN {<<n, c.dict[n]>> : n \in DOMAIN c.dict}
    ELSE {<<c.list[i].policyName, c.list[i].policyDocument>> : i \in 1..Len(c.list)}

\* a statement with its empty Condition removed, and Action and Resource read
\* as lists (a scalar is the one-element list)
NormalStatement(s) ==
    [f \in {x \in DOMAIN s : ~(x = "Condition" /\ DOMAIN s[x] = {})} |->
        IF f \in {"Action", "Resource"} THEN ListOf(s[f]) ELSE s[f]]

NormalDocument(doc) ==
    IF "Statement" \notin DOMAIN doc THEN doc
    ELSE Put(doc, "Statement",
             [i \in 1..Len(doc.Statement) |-> NormalStatement(doc.Statement[i])])

\* C2: each configured inline policy is embedded in the provisioned role under
\* its policy name, with the configured document less its empty Condition
\* entries: the same statements, each with its Effect, Action, Resource and
\* non-empty Condition.
C2_InlinePoliciesEmbedded ==
    \A k \in 1..Len(resources) :
        \A nd \in ConfiguredInline(file.roles[k]) :
            Truthy(nd[2]) =>
                LET policies == Get(resources[k].Properties, "Policies", EmptyDict) IN
                /\ nd[1] \in DOMAIN policies
                /\ NormalDocument(policies[nd[1]]) = NormalDocument(nd[2])

\* C4: a provisioned role carries DeletionPolicy Retain exactly when its
\* configuration entry has deletionPolicy "RETAIN".
C4_RetainIffConfigured ==
    \A k \in 1..Len(resources) :
        (Get(resources[k], "DeletionPolicy", "") = "Retain")
            <=> (Get(file.roles[k], "deletionPolicy", "") = "RETAIN")

DistinctRoleNames(entries) ==
    \A i, j \in 1..Len(entries) : i # j => entries[i].roleName # entries[j].roleName

RoleResources == {k \in 1..Len(resources) : resources[k].Type = "AWS::IAM::Role"}

RoleMatchesEntry(resource, entry) ==
    /\ resource.Properties.RoleName = entry.roleName
    /\ Get(resource.Properties, "ManagedPolicyArns", <<>>) = Get(entry, "managedPolicies", <<>>)

C6_ManagedPolicyPerEntry ==
    stackPc = "done" =>
        \A i \in 1..Len(file.iam_policies) :
            Cardinality({k \in 1..Len(resources) :
                /\ resources[k].Type = "AWS::IAM::ManagedPolicy"
                /\ resources[k].Properties.ManagedPolicyName = file.iam_policies[i].policyName
                /\ resources[k].Properties.PolicyDocument = file.iam_policies[i].policyDocument}) = 1

(***************************************************************************)
(* app.py: the roles of the configuration files are merged per account,    *)
(* then one stack is created per account.                                  *)
(***************************************************************************)
MaxFiles == 2        \* configuration files in the directory

Accounts == {"111111111111", "222222222222"}
RoleA == [roleName |-> "RoleA"]
RoleB == [roleName |-> "RoleB"]
RoleLists == {<<>>, <<RoleA>>, <<RoleB>>, <<RoleA, RoleB>>, <<RoleB, RoleA>>, <<RoleA, RoleA>>}

\* account_id is one string, a list that names each account once, or (an
\* unquoted YAML scalar) an int
AccountIdValues ==
    {S(a) : a \in Accounts}
    \cup {L(<<a>>) : a \in Accounts}
    \cup {L(<<ab[1], ab[2]>>) : ab \in {x \in Accounts \X Accounts : x[1] # x[2]}}
    \cup {N(1234)}

\* documents as cdkImportAutomationScript1 writes them, with region, stack_name
\* (the -Part1 one of a split output included) and iam_policies
PolicyA == [policyName |-> "PolicyA"]
PolicyB == [policyName |-> "PolicyB"]
FullDocuments ==
    [account_id : {L(<<a>>) : a \in Accounts},
     region : {"us-east-1", "eu-west-1"},
     stack_name : {"iam-role-policies-pipeline-stack", "iam-role-policies-pipeline-stack-Part1"},
     iam_policies : {<<>>, <<PolicyA>>, <<PolicyB, PolicyA>>},
     roles : {<<RoleA>>, <<RoleB>>}]

FileDocuments ==
    [account_id : AccountIdValues, roles : RoleLists]
    \cup [account_id : AccountIdValues]
    \cup FullDocuments

\* lines 22-29
load_account_info(data) ==
    LET account_ids == data.account_id IN
    [account_ids |-> IF IsStr(account_ids) THEN L(<<account_ids.str>>) ELSE account_ids,
     roles |-> Get(data, "roles", <<>>)]

\* a dict as the sequence of its items <<key, value>>, in insertion order
DictKeys(d) == {d[i][1] : i \in 1..Len(d)}
DictGet(d, k) == d[CHOOSE i \in 1..Len(d) : d[i][1] = k][2]
DictSet(d, k, v) ==
    IF k \in DictKeys(d)
    THEN [i \in 1..Len(d) |-> IF d[i][1] = k THEN <<k, v>> ELSE d[i]]
    ELSE Append(d, <<k, v>>)

\* the commented-out combine_roles_for_account: only roles with a new roleName
RECURSIVE ExtendRoles_UniqueNames(_, _)
ExtendRoles_UniqueNames(existing, new) ==
    IF Len(new) = 0 THEN existing
    ELSE ExtendRoles_UniqueNames(
             IF \E i \in 1..Len(existing) : existing[i].roleName = Head(new).roleName
             THEN existing ELSE Append(existing, Head(new)),
             Tail(new))

\* line 53: combined_configs[account_id].extend(roles)
ExtendRoles(existing, new) == existing \o new

\* lines 50-53, for the accounts of one file
RECURSIVE MergeAccounts(_, _, _)
MergeAccounts(d, account_ids, new) ==
    IF Len(account_ids) = 0 THEN d
    ELSE LET a == Head(account_ids)
             d1 == IF a \notin DictKeys(d) THEN DictSet(d, a, <<>>) ELSE d
         IN MergeAccounts(DictSet(d1, a, ExtendRoles(DictGet(d1, a), new)), Tail(account_ids), new)

\* one iteration of the loop of lines 48-53; iterating an int raises TypeError
LoadFile ==
    /\ appPc = "merge"
    /\ LET info == load_account_info(files[fileIdx]) IN
       IF ~IsList(info.account_ids)
       THEN /\ appPc' = "error"
            /\ UNCHANGED <<files, fileIdx, combined_configs, stacks>>
       ELSE /\ combined_configs' = MergeAccounts(combined_configs, info.account_ids.list, info.roles)
            /\ fileIdx' = fileIdx + 1
            /\ appPc' = IF fileIdx = Len(files)
                        THEN (IF Len(combined_configs') = 0 THEN "synth" ELSE "stacks")
                        ELSE "merge"
            /\ UNCHANGED <<files, stacks>>
    /\ UNCHANGED <<stackVars, discVars, fileVars>>

\* one iteration of the loop of lines 74-83: the stack is created for the account
CreateStack ==
    /\ appPc = "stacks"
    /\ LET item == combined_configs[Len(stacks) + 1] IN
       stacks' = Append(stacks,
           [id |-> "IamRoleConfigStack-" \o item[1],
            env |-> [account |-> item[1], region |-> "us-east-1"],
            roles |-> item[2],
            account_id |-> item[1]])
    /\ appPc' = IF Len(stacks') = Len(combined_configs) THEN "synth" ELSE "stacks"
    /\ UNCHANGED <<files, fileIdx, combined_configs>>
    /\ UNCHANGED <<stackVars, discVars, fileVars>>

StackIdle ==
    /\ variant = "backup"
    /\ file = [roles |-> <<>>, iam_policies |-> <<>>]
    /\ roles = <<>>
    /\ idx = 1
    /\ stackPc = "done"
    /\ raised = "none"
    /\ ids = {}
    /\ resources = <<>>
    /\ assume_role_policy_statements = <<>>

InitApp ==
    /\ files \in SeqsUpTo(FileDocuments, MaxFiles)
    /\ fileIdx = 1
    /\ combined_configs = <<>>
    /\ stacks = <<>>
    /\ appPc = IF Len(files) = 0 THEN "synth" ELSE "merge"
    /\ StackIdle
    /\ DiscoveryIdle
    /\ FilesIdle

NextApp ==
    \/ LoadFile
    \/ CreateStack

SpecApp == InitApp /\ [][NextApp]_vars

\* the accounts a document names: an account_id string is a one-element list
NamedAccounts(data) ==
    IF IsStr(data.account_id) THEN {data.account_id.str}
    ELSE IF IsList(data.account_id) THEN Range(data.account_id.list) ELSE {}

\* the roles lists of the first n files that name account a, concatenated in file order
RECURSIVE RolesOfAccount(_, _)
RolesOfAccount(a, n) ==
    IF n = 0 THEN <<>>
    ELSE RolesOfAccount(a, n - 1)
         \o (IF a \in NamedAccounts(files[n]) THEN Get(files[n], "roles", <<>>) ELSE <<>>)

HeldRoles(a) == IF a \in DictKeys(combined_configs) THEN DictGet(combined_configs, a) ELSE <<>>

PageSize == 2        \* items per page of a paginated list call

Account == "111111111111"

IamRole(name, path) ==
    [RoleName |-> name, Path |-> path,
     Arn |-> "arn:aws:iam::" \o Account \o ":role" \o path \o name]

\* what the provider holds for a fully populated role: the fields of get_role,
\* the answer of list_attached_role_policies (AttachedPolicies) and the
\* documents of list_role_policies / get_role_policy (RolePolicies)
AppRole ==
    IamRole("AppRole", "/") @@
    [Description |-> "application role",
     MaxSessionDuration |-> 7200,
     AssumeRolePolicyDocument |->
         [Version |-> "2012-10-17",
          Statement |-> << [Effect |-> "Allow",
                            Principal |-> [Service |-> S("lambda.amazonaws.com")],
                            Action |-> S("sts:AssumeRole"),
                            Condition |-> EmptyDict] >>],
     Tags |-> << [Key |-> "team", Value |-> "platform"] >>,
     PermissionsBoundary |-> [PermissionsBoundaryType |-> "Policy",
                              PermissionsBoundaryArn |-> "arn:aws:iam::" \o Account \o ":policy/Boundary"],
     AttachedPolicies |-> << [PolicyName |-> "ReadOnlyAccess",
                              PolicyArn |-> "arn:aws:iam::aws:policy/ReadOnlyAccess"] >>,
     RolePolicies |-> [inline1 |-> [Version |-> "2012-10-17",
                                    Statement |-> << [Effect |-> "Allow", Action |-> S("s3:GetObject"),
                                                      Resource |-> S("*"), Condition |-> EmptyDict] >>]]]

RoleUniverse ==
    << AppRole,
       IamRole("StackRole", "/"),
       IamRole("cdk-hnb659fds-deploy-role", "/"),
       IamRole("AWSServiceRoleForSupport", "/aws-service-role/support.amazonaws.com/"),
       IamRole("RoleToExclude2", "/") >>

IamPolicy(name, path) ==
    [PolicyName |-> name, Path |-> path, PolicyId |-> "ANPA" \o name,
     Arn |-> "arn:aws:iam::" \o Account \o ":policy" \o path \o name,
     Document |-> [Version |-> "2012-10-17",
                   Statement |-> << [Effect |-> "Allow", Action |-> S("s3:ListBucket"),
                                     Resource |-> S("*")] >>]]

AppPolicy ==
    IamPolicy("AppPolicy", "/") @@
    [Description |-> "application policy", Tags |-> << [Key |-> "team", Value |-> "platform"] >>]

PolicyUniverse ==
    << AppPolicy,
       IamPolicy("SvcPolicy", "/service-role/"),
       IamPolicy("StackPolicy", "/"),
       IamPolicy("NamedStackPolicy", "/"),
       IamPolicy("RolledBackPolicy", "/") >>

StackResource(type, physical) == [ResourceType |-> type, PhysicalResourceId |-> physical]

StackUniverse ==
    << [StackName |-> "app-stack", StackStatus |-> "CREATE_COMPLETE",
        StackResources |-> << StackResource("AWS::IAM::Role", "StackRole"),
                              StackResource("AWS::IAM::ManagedPolicy", IamPolicy("StackPolicy", "/").Arn) >>],
       [StackName |-> "legacy-stack", StackStatus |-> "UPDATE_COMPLETE",
        StackResources |-> << StackResource("AWS::S3::Bucket", "legacy-bucket"),
                              StackResource("AWS::IAM::ManagedPolicy", "NamedStackPolicy") >>],
       [StackName |-> "rolled-back-stack", StackStatus |-> "UPDATE_ROLLBACK_COMPLETE",
        StackResources |-> << StackResource("AWS::IAM::ManagedPolicy", IamPolicy("RolledBackPolicy", "/").Arn) >>] >>

\* the subsequences of q
RECURSIVE Pick(_, _, _)
Pick(q, chosen, i) ==
    IF i > Len(q) THEN <<>>
    ELSE (IF i \in chosen THEN <<q[i]>> ELSE <<>>) \o Pick(q, chosen, i + 1)
SubSeqs(q) == {Pick(q, chosen, 1) : chosen \in SUBSET (1..Len(q))}

\* how a paginated list call over the items q can end: all pages, or a provider
\* error at the request for a page, after n items
ListOutcomes(q) ==
    {[n |-> Len(q), err |-> FALSE]}
    \cup {[n |-> k, err |-> TRUE] : k \in {j \in 0..Len(q) : j % PageSize = 0 /\ (j < Len(q) \/ Len(q) = 0)}}

\* the same for a listing of stacks that asks for the resources of each stack
StackOutcomes(q) ==
    {[n |-> Len(q), err |-> FALSE]}
    \cup {[n |-> k, err |-> TRUE] : k \in {j \in 0..Len(q) : j < Len(q) \/ Len(q) = 0}}

\* main(): the exclusion lists of each script
exclude_paths == <<"/aws-reserved/", "/aws-service-role/", "/service-role/", "/cdk-hnb">>
exclude_role_prefixes ==
    [appendnewscript |-> <<"cdk-hnb659fds", "StackSet", "AWSControlTower">>,
     cdkImportAutomationScript1 |-> <<"cdk-hnb659fds", "StackSet", "stackset", "AWSControlTower">>,
     iamRoleCollectAll |-> <<"cdk-hnb659fds">>]
exclude_roles == <<"HubdetectiveStack-DetectiveControlsLambdaFunctionS-P4IYV4VCDBYD", "RoleToExclude2">>

AnyStartsWith(s, prefixes) == \E i \in 1..Len(prefixes) : StartsWith(s, prefixes[i])

Map(q, Op(_)) == LET items == q IN [i \in 1..Len(items) |-> Op(items[i])]

\* get_account_id: None on a provider error, and main returns; the one of
\* iamRoleCollectAll.py has no handler
get_account_id ==
    /\ dPc = "get_account_id"
    /\ \E ok \in BOOLEAN :
           /\ dPc' = IF ok
                     THEN (IF script = "cdkimportpoliciesautomation"
                           THEN "list_customer_managed_policies" ELSE "list_iam_roles")
                     ELSE (IF script = "iamRoleCollectAll" THEN "crashed" ELSE "done")
           /\ main_account_id' = IF ok THEN Account ELSE ""
    /\ UNCHANGED <<script, iamRoles, cfStacks, iamPolicies, first_run, get_role_failed, returned, listed,
                   cf_stack_roles, roles_data, cf_policy_arns, customer_managed_policies, policies_data,
                   written>>
    /\ UNCHANGED <<stackVars, appVars, fileVars>>

\* list_iam_roles without its exclusion by name prefix
script1_keep_NoPrefixes(role) ==
    /\ ~AnyStartsWith(role.Path, exclude_paths)
    /\ ~(\E i \in 1..Len(exclude_roles) : exclude_roles[i] = role.RoleName)

\* cdkImportAutomationScript1.py lines 134-144: the role passes all exclusions
script1_keep(role) ==
    /\ ~AnyStartsWith(role.Path, exclude_paths)
    /\ ~AnyStartsWith(role.RoleName, exclude_role_prefixes.cdkImportAutomationScript1)
    /\ ~(\E i \in 1..Len(exclude_roles) : exclude_roles[i] = role.RoleName)

RoleRef(role) == [RoleName |-> role.RoleName, RoleArn |-> role.Arn]

script1_list_iam_roles ==
    /\ script = "cdkImportAutomationScript1"
    /\ dPc = "list_iam_roles"
    /\ \E o \in ListOutcomes(iamRoles) :
           /\ returned' = SubSeq(iamRoles, 1, o.n)
           /\ listed' = Map(SelectSeq(returned', script1_keep), RoleRef)
    /\ dPc' = "list_cf_stack_roles"
    /\ UNCHANGED <<envVars, get_role_failed, cf_stack_roles, roles_data, cf_policy_arns,
                   customer_managed_policies, policies_data, written>>
    /\ UNCHANGED <<stackVars, appVars, fileVars>>

\* appendnewscript.py lines 25-27: the third operand names exclude_role_prefixes,
\* which is neither the parameter (exclude_role_prefix) nor a global, so
\* evaluating it raises NameError; the first two operands short-circuit it
appendnewscript_reaches_prefix_test(role) ==
    /\ ~StartsWith(role.Arn, "arn:aws:iam::aws:role/")
    /\ ~AnyStartsWith(role.Path, exclude_paths)

appendnewscript_list_iam_roles ==
    /\ script = "appendnewscript"
    /\ dPc = "list_iam_roles"
    /\ \E o \in ListOutcomes(iamRoles) :
           /\ returned' = SubSeq(iamRoles, 1, o.n)
           /\ IF \E i \in 1..o.n : appendnewscript_reaches_prefix_test(iamRoles[i])
              THEN dPc' = "crashed"
              ELSE dPc' = "list_cf_stack_roles"
    /\ listed' = <<>>
    /\ UNCHANGED <<envVars, get_role_failed, cf_stack_roles, roles_data, cf_policy_arns,
                   customer_managed_policies, policies_data, written>>
    /\ UNCHANGED <<stackVars, appVars, fileVars>>

\* iamRoleCollectAll.py lines 26-40
collectAll_keep(role) ==
    /\ ~AnyStartsWith(role.Path, exclude_paths)
    /\ ~AnyStartsWith(role.RoleName, exclude_role_prefixes.iamRoleCollectAll)

CsvRow(role) ==
    [RoleName |-> role.RoleName, RoleArn |-> role.Arn, UnderCFN |-> "No", CFNStackName |-> ""]

collectAll_list_iam_roles ==
    /\ script = "iamRoleCollectAll"
    /\ dPc = "list_iam_roles"
    /\ \E o \in ListOutcomes(iamRoles) :
           /\ returned' = SubSeq(iamRoles, 1, o.n)
           /\ listed' = Map(SelectSeq(returned', collectAll_keep), CsvRow)
    /\ dPc' = "list_cf_stack_roles"
    /\ UNCHANGED <<envVars, get_role_failed, cf_stack_roles, roles_data, cf_policy_arns,
                   customer_managed_policies, policies_data, written>>
    /\ UNCHANGED <<stackVars, appVars, fileVars>>

\* the resources of one type in the stacks q, as <<stack name, physical id>>
RECURSIVE ResourcesOfType(_, _)
ResourcesOfType(q, type) ==
    IF Len(q) = 0 THEN <<>>
    ELSE Map(SelectSeq(Head(q).StackResources, LAMBDA r : r.ResourceType = type),
             LAMBDA r : <<Head(q).StackName, r.PhysicalResourceId>>)
         \o ResourcesOfType(Tail(q), type)

\* appendnewscript.py list_cf_stack_roles: on a provider error the roles
\* collected so far are returned
appendnewscript_list_cf_stack_roles ==
    /\ script = "appendnewscript"
    /\ dPc = "list_cf_stack_roles"
    /\ \E o \in StackOutcomes(cfStacks) :
           cf_stack_roles' = Map(ResourcesOfType(SubSeq(cfStacks, 1, o.n), "AWS::IAM::Role"),
                                 LAMBDA sr : [StackName |-> sr[1], PhysicalID |-> sr[2],
                                              Type |-> "AWS::IAM::Role"])
    /\ dPc' = "write"
    /\ UNCHANGED <<envVars, get_role_failed, returned, listed, roles_data, cf_policy_arns,
                   customer_managed_policies, policies_data, written>>
    /\ UNCHANGED <<stackVars, appVars, fileVars>>

\* cdkImportAutomationScript1.py list_cf_stack_roles: on a provider error the
\* result is the empty list
script1_list_cf_stack_roles ==
    /\ script = "cdkImportAutomationScript1"
    /\ dPc = "list_cf_stack_roles"
    /\ \E o \in StackOutcomes(cfStacks) :
           cf_stack_roles' = IF o.err THEN <<>>
                             ELSE Map(ResourcesOfType(cfStacks, "AWS::IAM::Role"), LAMBDA sr : sr[2])
    /\ dPc' = "get_iam_role_state"
    /\ UNCHANGED <<envVars, get_role_failed, returned, listed, roles_data, cf_policy_arns,
                   customer_managed_policies, policies_data, written>>
    /\ UNCHANGED <<stackVars, appVars, fileVars>>

\* iamRoleCollectAll.py list_cf_stack_roles: the dict keeps what was entered
\* before a provider error; as its items <<role name, stack name>>
collectAll_list_cf_stack_roles ==
    /\ script = "iamRoleCollectAll"
    /\ dPc = "list_cf_stack_roles"
    /\ \E o \in StackOutcomes(cfStacks) :
           cf_stack_roles' = Map(ResourcesOfType(SubSeq(cfStacks, 1, o.n), "AWS::IAM::Role"),
                                 LAMBDA sr : <<sr[2], sr[1]>>)
    /\ dPc' = "write"
    /\ UNCHANGED <<envVars, get_role_failed, returned, listed, roles_data, cf_policy_arns,
                   customer_managed_policies, policies_data, written>>
    /\ UNCHANGED <<stackVars, appVars, fileVars>>

\* the run asks the provider for the details of each item once; MaxGone of
\* them at most are answered by an error (NoSuchEntity, ClientError)
MaxGone == 1
Failing(names) == {none \in SUBSET names : Cardinality(none) <= MaxGone}

\* get_role: the Role structure of the role of that name
GetRoleKeys == {"Path", "RoleName", "Arn", "AssumeRolePolicyDocument", "Description",
                "MaxSessionDuration", "PermissionsBoundary", "Tags"}
ProviderRole(name) == iamRoles[CHOOSE i \in 1..Len(iamRoles) : iamRoles[i].RoleName = name]
RoleState(role) == [k \in (DOMAIN role) \cap GetRoleKeys |-> role[k]]
RoleDetails(name) == RoleState(ProviderRole(name))

\* filter_roles (lines 197-203)
filter_roles(role_refs, cf_role_physical_ids) ==
    SelectSeq(role_refs, LAMBDA r : r.RoleName \notin Range(cf_role_physical_ids))

\* cdkImportAutomationScript1.main lines 423-435: get_iam_role_state returns
\* None for a role that is gone or on a provider error
script1_get_iam_role_state ==
    /\ script = "cdkImportAutomationScript1"
    /\ dPc = "get_iam_role_state"
    /\ LET filtered_roles == filter_roles(listed, cf_stack_roles) IN
       \E none \in Failing({filtered_roles[i].RoleName : i \in 1..Len(filtered_roles)}) :
           /\ get_role_failed' = none
           /\ roles_data' = Map(SelectSeq(filtered_roles, LAMBDA r : r.RoleName \notin none),
                                LAMBDA r : RoleDetails(r.RoleName))
    /\ dPc' = "list_cf_stack_policies"
    /\ UNCHANGED <<envVars, returned, listed, cf_stack_roles, cf_policy_arns,
                   customer_managed_policies, policies_data, written>>
    /\ UNCHANGED <<stackVars, appVars, fileVars>>

\* cdkImportAutomationScript1.list_cf_stack_policies: list_stacks with the
\* StackStatusFilter (line 24)
ActiveStacks(q) ==
    SelectSeq(q, LAMBDA s : s.StackStatus \in {"CREATE_COMPLETE", "UPDATE_COMPLETE"})

\* lines 38-41: a physical id that is an ARN already is taken as it is
script1_policy_arn(physical_id) ==
    IF StartsWith(physical_id, "arn:aws:iam::") THEN physical_id
    ELSE "arn:aws:iam::" \o Account \o ":policy/" \o physical_id

script1_list_cf_stack_policies ==
    /\ script = "cdkImportAutomationScript1"
    /\ dPc = "list_cf_stack_policies"
    /\ \E o \in StackOutcomes(ActiveStacks(cfStacks)) :
           cf_policy_arns' =
               IF o.err THEN <<>>
               ELSE Map(ResourcesOfType(ActiveStacks(cfStacks), "AWS::IAM::ManagedPolicy"),
                        LAMBDA sr : script1_policy_arn(sr[2]))
    /\ dPc' = "list_customer_managed_policies"
    /\ UNCHANGED <<envVars, get_role_failed, returned, listed, cf_stack_roles, roles_data,
                   customer_managed_policies, policies_data, written>>
    /\ UNCHANGED <<stackVars, appVars, fileVars>>

PolicyRef(policy) ==
    [PolicyName |-> policy.PolicyName, PolicyArn |-> policy.Arn,
     PolicyId |-> policy.PolicyId, Path |-> policy.Path]

\* lines 64-79: the result is the empty list on a provider error
script1_list_customer_managed_policies ==
    /\ script = "cdkImportAutomationScript1"
    /\ dPc = "list_customer_managed_policies"
    /\ \E o \in ListOutcomes(iamPolicies) :
           customer_managed_policies' =
               IF o.err THEN <<>>
               ELSE Map(SelectSeq(iamPolicies,
                                  LAMBDA policy : /\ policy.Arn \notin Range(cf_policy_arns)
                                                  /\ ~Contains(policy.Path, "/service-role/")),
                        PolicyRef)
    /\ dPc' = "get_policy_details"
    /\ UNCHANGED <<envVars, get_role_failed, returned, listed, cf_stack_roles, roles_data, cf_policy_arns,
                   policies_data, written>>
    /\ UNCHANGED <<stackVars, appVars, fileVars>>

\* get_policy_details: a key whose value is None is left out of the record;
\* cdkimportpoliciesautomation.py returns no Tags
ProviderPolicy(arn) == iamPolicies[CHOOSE i \in 1..Len(iamPolicies) : iamPolicies[i].Arn = arn]
PolicyState(policy, with_tags) ==
    [PolicyName |-> policy.PolicyName, Path |-> policy.Path, PolicyDocument |-> policy.Document]
    @@ Opt("Description" \in DOMAIN policy, "Description", Get(policy, "Description", ""))
    @@ Opt(with_tags, "Tags", Get(policy, "Tags", <<>>))
PolicyDetails(arn, with_tags) == PolicyState(ProviderPolicy(arn), with_tags)

\* main lines 443-448
script1_get_policy_details ==
    /\ script = "cdkImportAutomationScript1"
    /\ dPc = "get_policy_details"
    /\ \E none \in Failing(Range(Map(customer_managed_policies, LAMBDA policy : policy.PolicyArn))) :
           policies_data' = Map(SelectSeq(customer_managed_policies,
                                          LAMBDA policy : policy.PolicyArn \notin none),
                                LAMBDA policy : PolicyDetails(policy.PolicyArn, TRUE))
    /\ dPc' = "write"
    /\ UNCHANGED <<envVars, get_role_failed, returned, listed, cf_stack_roles, roles_data, cf_policy_arns,
                   customer_managed_policies, written>>
    /\ UNCHANGED <<stackVars, appVars, fileVars>>

\* the truth value of d.get(k), by the type of the value
HasStr(d, k) == k \in DOMAIN d /\ Len(d[k]) > 0
HasList(d, k) == k \in DOMAIN d /\ Len(d[k]) > 0
HasInt(d, k) == k \in DOMAIN d /\ d[k] # 0
HasDict(d, k) == k \in DOMAIN d /\ DOMAIN d[k] # {}

\* cdkImportAutomationScript1.create_yaml_content lines 247-265
script1_policy_dict(policy) ==
    [policyName |-> policy.PolicyName, deletionPolicy |-> "RETAIN"]
    @@ Opt(HasDict(policy, "PolicyDocument"), "policyDocument", Get(policy, "PolicyDocument", EmptyDict))
    @@ Opt(HasStr(policy, "Description"), "description", Get(policy, "Description", ""))
    @@ Opt(HasStr(policy, "Path"), "path", Get(policy, "Path", ""))
    @@ Opt(HasList(policy, "Tags"), "tags",
           Map(Get(policy, "Tags", <<>>), LAMBDA tag : [Key |-> tag.Key, Value |-> tag.Value]))

\* cdkImportAutomationScript1.create_yaml_content lines 268-291
script1_role_dict(role) ==
    [roleName |-> role.RoleName, deletionPolicy |-> "RETAIN"]
    @@ Opt(HasStr(role, "Description"), "description", Get(role, "Description", ""))
    @@ Opt(HasInt(role, "MaxSessionDuration"), "sessionDuration", Get(role, "MaxSessionDuration", 0))
    @@ Opt(HasStr(role, "Path"), "iamPath", Get(role, "Path", ""))
    @@ Opt(HasDict(role, "AssumeRolePolicyDocument"), "trustPolicy",
           Get(role, "AssumeRolePolicyDocument", EmptyDict))
    @@ Opt(HasList(role, "Tags"), "tags",
           Map(Get(role, "Tags", <<>>), LAMBDA tag : [key |-> tag.Key, value |-> tag.Value]))
    @@ Opt(HasList(role, "ManagedPolicies"), "managedPolicies", Get(role, "ManagedPolicies", <<>>))
    @@ Opt(HasDict(role, "InlinePolicies"), "inlinePolicies", Get(role, "InlinePolicies", EmptyDict))
    @@ Opt(HasDict(role, "PermissionsBoundary"), "permissionBoundary",
           [dict |-> Get(role, "PermissionsBoundary", EmptyDict)])

build_full_yaml_structure(account_id, region, role_states, policy_details) ==
    [account_id |-> <<account_id>>,
     region |-> region,
     stack_name |-> "iam-role-policies-pipeline-stack",
     iam_policies |-> Map(policy_details, script1_policy_dict),
     roles |-> Map(role_states, script1_role_dict)]

max_resources_per_file == 450

\* append_to_yaml_file (lines 371-388): the file it writes
script1_yaml_file(full_yaml_structure, account_id, file_suffix) ==
    [name |-> "iamrole-policies-" \o account_id \o file_suffix \o ".yaml",
     content |-> full_yaml_structure]

\* line 339 with each chunk starting on the last resource of the one before
Chunks_Overlap(all_resources, max_per_file) ==
    LET total_resources == Len(all_resources)
        nchunks == (total_resources + max_per_file - 1) \div max_per_file
    IN  [k \in 1..nchunks |->
            SubSeq(all_resources, IF k = 1 THEN 1 ELSE (k - 1) * max_per_file,
                   IF k * max_per_file < total_resources THEN k * max_per_file ELSE total_resources)]

\* line 339: all_resources[i:i + max] for i in range(0, total_resources, max)
Chunks(all_resources, max_per_file) ==
    LET total_resources == Len(all_resources)
        nchunks == (total_resources + max_per_file - 1) \div max_per_file
    IN  [k \in 1..nchunks |->
            SubSeq(all_resources, (k - 1) * max_per_file + 1,
                   IF k * max_per_file < total_resources THEN k * max_per_file ELSE total_resources)]

\* lines 347-368 with every following file named Part1
PartSuffix_AlwaysOne(file_count) == IF file_count = 1 THEN "" ELSE "-Part1"

\* lines 347-368: no suffix for the first chunk, -Part{file_count-1} after it
PartSuffix(file_count) == IF file_count = 1 THEN "" ELSE "-Part" \o IntStr(file_count - 1)

\* split_yaml_content (lines 326-368): the files it writes, in order
split_yaml_content(full_yaml_structure, account_id, max_per_file) ==
    LET chunks == Chunks(full_yaml_structure.iam_policies \o full_yaml_structure.roles, max_per_file)
    IN  [file_count \in 1..Len(chunks) |->
            script1_yaml_file(
                [account_id |-> full_yaml_structure.account_id,
                 region |-> full_yaml_structure.region,
                 stack_name |-> full_yaml_structure.stack_name \o PartSuffix(file_count),
                 iam_policies |-> SelectSeq(chunks[file_count], LAMBDA resource : "policyName" \in DOMAIN resource),
                 roles |-> SelectSeq(chunks[file_count], LAMBDA resource : "roleName" \in DOMAIN resource)],
                account_id, PartSuffix(file_count))]

\* line 378 opening the file to append the roles to what it holds
WriteFiles_Append(on_disk, new_files) ==
    [i \in 1..Len(new_files) |->
        LET old == SelectSeq(on_disk, LAMBDA f : f.name = new_files[i].name) IN
        IF old = <<>> THEN new_files[i]
        ELSE [new_files[i] EXCEPT !.content.roles = old[1].content.roles \o @]]
    \o SelectSeq(on_disk, LAMBDA f : \A i \in 1..Len(new_files) : new_files[i].name # f.name)

\* line 378: open(yaml_file_name, 'w') replaces what a file of that name
\* holds; files of other names stay
WriteFiles(on_disk, new_files) ==
    new_files \o SelectSeq(on_disk, LAMBDA f : \A i \in 1..Len(new_files) : new_files[i].name # f.name)

\* main lines 450-457
script1_write ==
    /\ script = "cdkImportAutomationScript1"
    /\ dPc = "write"
    /\ LET full_yaml_structure == build_full_yaml_structure(Account, "us-east-1", roles_data, policies_data)
       IN  written' = WriteFiles(written,
                          IF Len(roles_data) + Len(policies_data) > max_resources_per_file
                          THEN split_yaml_content(full_yaml_structure, Account, max_resources_per_file)
                          ELSE <<script1_yaml_file(full_yaml_structure, Account, "")>>)
    /\ dPc' = "done"
    /\ UNCHANGED <<envVars, get_role_failed, returned, listed, cf_stack_roles, roles_data, cf_policy_arns,
                   customer_managed_policies, policies_data>>
    /\ UNCHANGED <<stackVars, appVars, fileVars>>

\* appendnewscript.create_yaml_content lines 150-165: the trust policy with
\* every principal value as a list and empty Conditions left out
appendnewscript_trust_policy(trust_policy) ==
    LET stmts == Get(trust_policy, "Statement", <<>>)
        as_list(v) == IF IsList(v) THEN v ELSE IF IsStr(v) THEN L(<<v.str>>) ELSE L(<<v>>)
    IN  [Version |-> Get(trust_policy, "Version", "2012-10-17"),
         Statement |->
             [i \in 1..Len(stmts) |->
                 [Effect |-> stmts[i].Effect,
                  Principal |-> [k \in DOMAIN stmts[i].Principal |-> as_list(stmts[i].Principal[k])],
                  Action |-> stmts[i].Action]
                 @@ Opt(HasDict(stmts[i], "Condition"), "Condition", Get(stmts[i], "Condition", EmptyDict))]]

\* appendnewscript.create_yaml_content lines 120-184, for one role
appendnewscript_role_dict(role_data) ==
    LET provider == ProviderRole(role_data.RoleName)
        attached_policies == Get(provider, "AttachedPolicies", <<>>)
        inline_policies == Get(provider, "RolePolicies", EmptyDict)
        boundary == Get(role_data, "PermissionsBoundary", EmptyDict)
    IN  [roleName |-> role_data.RoleName]
        @@ Opt(HasStr(role_data, "Description"), "description", Get(role_data, "Description", ""))
        @@ Opt(HasInt(role_data, "MaxSessionDuration"), "sessionDuration", Get(role_data, "MaxSessionDuration", 0))
        @@ Opt(HasStr(role_data, "Path"), "iamPath", Get(role_data, "Path", ""))
        @@ Opt(HasDict(role_data, "AssumeRolePolicyDocument"), "trustPolicy",
               appendnewscript_trust_policy(Get(role_data, "AssumeRolePolicyDocument", EmptyDict)))
        @@ Opt(Len(attached_policies) > 0, "managedPolicies",
               Map(attached_policies, LAMBDA policy : policy.PolicyArn))
        @@ Opt(DOMAIN inline_policies # {}, "inlinePolicies",
               [n \in DOMAIN inline_policies |-> StripEmptyConditions(inline_policies[n])])
        @@ Opt(HasStr(boundary, "PermissionsBoundaryArn"), "permissionBoundary",
               S(Get(boundary, "PermissionsBoundaryArn", "")))
        @@ Opt(HasList(role_data, "Tags"), "tags",
               Map(Get(role_data, "Tags", <<>>), LAMBDA tag : [key |-> tag.Key, value |-> tag.Value]))
        @@ [deletionPolicy |-> "RETAIN"]

\* appendnewscript.main lines 264-284 with append_to_yaml_file (lines 189-223),
\* which extends the roles of the file an earlier run wrote;
\* list_attached_role_policies has no handler
appendnewscript_write ==
    /\ script = "appendnewscript"
    /\ dPc = "write"
    /\ LET cf_stack_role_names == {cf_stack_roles[i].PhysicalID : i \in 1..Len(cf_stack_roles)}
           filtered_roles == SelectSeq(listed, LAMBDA r : r.RoleName \notin cf_stack_role_names)
       IN  \E none \in Failing({filtered_roles[i].RoleName : i \in 1..Len(filtered_roles)}),
              attached_ok \in BOOLEAN :
               /\ get_role_failed' = none
               /\ roles_data' = Map(SelectSeq(filtered_roles, LAMBDA r : r.RoleName \notin none),
                                    LAMBDA r : RoleDetails(r.RoleName))
               /\ IF Len(roles_data') = 0
                  THEN written' = written /\ dPc' = "done"
                  ELSE IF ~attached_ok
                       THEN written' = written /\ dPc' = "crashed"
                       ELSE /\ written' =
                                   LET existing_content ==
                                           IF written = <<>>
                                           THEN [account_id |-> <<Account>>, region |-> "us-east-1",
                                                 roles |-> <<>>]
                                           ELSE written[1].content
                                   IN  << [name |-> "iamrole-" \o Account \o ".yaml",
                                           content |-> [existing_content EXCEPT !.roles =
                                               @ \o Map(roles_data', appendnewscript_role_dict)]] >>
                            /\ dPc' = "done"
    /\ UNCHANGED <<envVars, returned, listed, cf_stack_roles, cf_policy_arns,
                   customer_managed_policies, policies_data>>
    /\ UNCHANGED <<stackVars, appVars, fileVars>>

\* iamRoleCollectAll.main line 112: the time of the run
Timestamps == {"20240101000000", "20240101000001"}

\* write_roles_to_csv lines 96-100: the row of a listed role
MarkedRow(role, cf_roles) ==
    LET hits == {i \in 1..Len(cf_roles) : cf_roles[i][1] = role.RoleName} IN
    IF hits = {} THEN role
    ELSE [role EXCEPT !.UnderCFN = "Yes",
                      !.CFNStackName = cf_roles[CHOOSE i \in hits : \A j \in hits : j <= i][2]]

collectAll_write ==
    /\ script = "iamRoleCollectAll"
    /\ dPc = "write"
    /\ \E current_time \in Timestamps :
           written' = << [name |-> "iam_roles_" \o Account \o "_" \o current_time \o ".csv",
                          content |-> [rows |-> Map(listed, LAMBDA role : MarkedRow(role, cf_stack_roles))]] >>
    /\ dPc' = "done"
    /\ UNCHANGED <<envVars, get_role_failed, returned, listed, cf_stack_roles, roles_data, cf_policy_arns,
                   customer_managed_policies, policies_data>>
    /\ UNCHANGED <<stackVars, appVars, fileVars>>

\* cdkimportpoliciesautomation.list_customer_managed_policies lines 49-68
policies_list_customer_managed_policies ==
    /\ script = "cdkimportpoliciesautomation"
    /\ dPc = "list_customer_managed_policies"
    /\ \E o \in ListOutcomes(iamPolicies) :
           customer_managed_policies' =
               IF o.err THEN <<>>
               ELSE Map(SelectSeq(iamPolicies, LAMBDA policy : ~Contains(policy.Path, "/service-role/")),
                        PolicyRef)
    /\ dPc' = "list_cf_stack_policies"
    /\ UNCHANGED <<envVars, get_role_failed, returned, listed, cf_stack_roles, roles_data, cf_policy_arns,
                   policies_data, written>>
    /\ UNCHANGED <<stackVars, appVars, fileVars>>

\* cdkimportpoliciesautomation.list_cf_stack_policies line 28: the physical id
\* is put behind the account's policy prefix whatever it is
policies_policy_arn(physical_id) == "arn:aws:iam::" \o Account \o ":policy/" \o physical_id

policies_list_cf_stack_policies ==
    /\ script = "cdkimportpoliciesautomation"
    /\ dPc = "list_cf_stack_policies"
    /\ \E o \in StackOutcomes(cfStacks) :
           cf_policy_arns' =
               IF o.err THEN <<>>
               ELSE Map(ResourcesOfType(cfStacks, "AWS::IAM::ManagedPolicy"),
                        LAMBDA sr : policies_policy_arn(sr[2]))
    /\ dPc' = "get_policy_details"
    /\ UNCHANGED <<envVars, get_role_failed, returned, listed, cf_stack_roles, roles_data,
                   customer_managed_policies, policies_data, written>>
    /\ UNCHANGED <<stackVars, appVars, fileVars>>

filter_policies(policy_refs, arns) ==
    SelectSeq(policy_refs, LAMBDA policy : policy.PolicyArn \notin Range(arns))

\* cdkimportpoliciesautomation.main lines 181-189
policies_get_policy_details ==
    /\ script = "cdkimportpoliciesautomation"
    /\ dPc = "get_policy_details"
    /\ LET filtered_policies == filter_policies(customer_managed_policies, cf_policy_arns) IN
       \E none \in Failing(Range(Map(filtered_policies, LAMBDA policy : policy.PolicyArn))) :
           policies_data' = Map(SelectSeq(filtered_policies, LAMBDA policy : policy.PolicyArn \notin none),
                                LAMBDA policy : PolicyDetails(policy.PolicyArn, FALSE))
    /\ dPc' = "write"
    /\ UNCHANGED <<envVars, get_role_failed, returned, listed, cf_stack_roles, roles_data, cf_policy_arns,
                   customer_managed_policies, written>>
    /\ UNCHANGED <<stackVars, appVars, fileVars>>

\* cdkimportpoliciesautomation.create_yaml_content lines 110-126
policies_policy_dict(policy) ==
    [policyName |-> policy.PolicyName, deletionPolicy |-> "RETAIN"]
    @@ Opt(HasDict(policy, "PolicyDocument"), "policyDocument", Get(policy, "PolicyDocument", EmptyDict))
    @@ Opt(HasStr(policy, "Description"), "description", Get(policy, "Description", ""))
    @@ Opt(HasStr(policy, "Path"), "path", Get(policy, "Path", ""))

\* main lines 191-195 with append_to_yaml_file (lines 131-149)
policies_write ==
    /\ script = "cdkimportpoliciesautomation"
    /\ dPc = "write"
    /\ written' = << [name |-> "iampolicy-" \o Account \o ".yaml",
                      content |-> [account_id |-> <<Account>>,
                                   region |-> "us-east-1",
                                   stack_name |-> "iampipeline-iampolicies-stack",
                                   iam_policies |-> Map(policies_data, policies_policy_dict)]] >>
    /\ dPc' = "done"
    /\ UNCHANGED <<envVars, get_role_failed, returned, listed, cf_stack_roles, roles_data, cf_policy_arns,
                   customer_managed_policies, policies_data>>
    /\ UNCHANGED <<stackVars, appVars, fileVars>>

\* a run of one discovery script against an account
InitDisc ==
    /\ \/ /\ script \in {"appendnewscript", "iamRoleCollectAll"}
          /\ iamRoles \in SubSeqs(RoleUniverse)
          /\ cfStacks \in SubSeqs(StackUniverse)
          /\ iamPolicies = <<>>
       \/ /\ script = "cdkimportpoliciesautomation"
          /\ iamRoles = <<>>
          /\ cfStacks \in SubSeqs(StackUniverse)
          /\ iamPolicies \in SubSeqs(PolicyUniverse)
       \/ /\ script = "cdkImportAutomationScript1"
          /\ iamRoles \in SubSeqs(RoleUniverse)
          /\ cfStacks \in SubSeqs(StackUniverse)
          /\ iamPolicies \in SubSeqs(PolicyUniverse)
    /\ first_run = <<>>
    /\ main_account_id = ""
    /\ dPc = "get_account_id"
    /\ returned = <<>>
    /\ get_role_failed = {}
    /\ listed = <<>>
    /\ cf_stack_roles = <<>>
    /\ roles_data = <<>>
    /\ cf_policy_arns = <<>>
    /\ customer_managed_policies = <<>>
    /\ policies_data = <<>>
    /\ written = <<>>
    /\ StackIdle
    /\ AppIdle
    /\ FilesIdle

NextDisc ==
    \/ get_account_id
    \/ appendnewscript_list_iam_roles
    \/ appendnewscript_list_cf_stack_roles
    \/ appendnewscript_write
    \/ script1_list_iam_roles
    \/ script1_list_cf_stack_roles
    \/ script1_get_iam_role_state
    \/ script1_list_cf_stack_policies
    \/ script1_list_customer_managed_policies
    \/ script1_get_policy_details
    \/ script1_write
    \/ policies_list_customer_managed_policies
    \/ policies_list_cf_stack_policies
    \/ policies_get_policy_details
    \/ policies_write
    \/ collectAll_list_iam_roles
    \/ collectAll_list_cf_stack_roles
    \/ collectAll_write

SpecDisc == InitDisc /\ [][NextDisc]_vars

(***************************************************************************)
(* Properties of the discovery scripts.                                    *)
(***************************************************************************)
RoleScripts == {"appendnewscript", "cdkImportAutomationScript1"}
PolicyScripts == {"cdkimportpoliciesautomation", "cdkImportAutomationScript1"}

\* the role names written by the run, one per written entry or row
WrittenRoleNames ==
    IF script \in RoleScripts
    THEN [i \in 1..Len(written) |-> Map(written[i].content.roles, LAMBDA r : r.roleName)]
    ELSE IF script = "iamRoleCollectAll"
    THEN [i \in 1..Len(written) |-> Map(written[i].content.rows, LAMBDA r : r.RoleName)]
    ELSE <<>>
EmittedRoleNames == UNION {Range(WrittenRoleNames[i]) : i \in 1..Len(WrittenRoleNames)}

WrittenPolicyNames ==
    IF script \in PolicyScripts
    THEN [i \in 1..Len(written) |-> Map(written[i].content.iam_policies, LAMBDA q : q.policyName)]
    ELSE <<>>
EmittedPolicyNames == UNION {Range(WrittenPolicyNames[i]) : i \in 1..Len(WrittenPolicyNames)}

\* the physical ids of the resources of one type in the stacks of the account
PhysicalIds(type) ==
    {cfStacks[i].StackResources[j].PhysicalResourceId :
        <<i, j>> \in {ij \in (1..Len(cfStacks)) \X (1..2) :
                         /\ ij[2] <= Len(cfStacks[ij[1]].StackResources)
                         /\ cfStacks[ij[1]].StackResources[ij[2]].ResourceType = type}}

\* C7: in every run of role discovery (appendnewscript, cdkImportAutomationScript1),
\* provider errors of the stack listing included, no role whose name is the
\* physical id of an AWS::IAM::Role resource of a stack of the account is written
C7_NoStackOwnedRoleWritten ==
    script \in RoleScripts => EmittedRoleNames \cap PhysicalIds("AWS::IAM::Role") = {}

\* C8: no customer-managed policy that is an AWS::IAM::ManagedPolicy resource of
\* a stack is emitted by policy discovery, whether the stack gives the physical
\* id as the policy's ARN or as its bare name
C8_NoStackOwnedPolicyEmitted ==
    script \in PolicyScripts =>
        \A i \in 1..Len(iamPolicies) :
            (\/ iamPolicies[i].Arn \in PhysicalIds("AWS::IAM::ManagedPolicy")
             \/ iamPolicies[i].PolicyName \in PhysicalIds("AWS::IAM::ManagedPolicy"))
            => iamPolicies[i].PolicyName \notin EmittedPolicyNames

ReservedPathPrefixes == {"/aws-reserved/", "/aws-service-role/", "/service-role/", "/cdk-hnb"}
ExcludedNamePrefixes ==
    IF script \in DOMAIN exclude_role_prefixes THEN Range(exclude_role_prefixes[script]) ELSE {}
ExplicitlyExcluded ==
    IF script = "cdkImportAutomationScript1" THEN Range(exclude_roles) ELSE {}

MatchesExclusion(role) ==
    \/ \E prefix \in ReservedPathPrefixes : StartsWith(role.Path, prefix)
    \/ \E prefix \in ExcludedNamePrefixes : StartsWith(role.RoleName, prefix)
    \/ role.RoleName \in ExplicitlyExcluded

\* C9: no role emitted by a discovery script has a path under a reserved path
\* prefix, a name with an excluded name prefix, or (cdkImportAutomationScript1)
\* a name of the explicit exclusion list
C9_EmittedRolesPassExclusions ==
    \A name \in EmittedRoleNames : ~MatchesExclusion(ProviderRole(name))

\* a finished run of cdkImportAutomationScript1 over an account that holds a
\* role of each excluded kind, which wrote the one ordinary role
C9_Witness ==
    /\ script = "cdkImportAutomationScript1"
    /\ dPc = "done"
    /\ returned = RoleUniverse
    /\ "AppRole" \in EmittedRoleNames
    /\ \E i \in 1..Len(returned) : StartsWith(returned[i].Path, "/aws-service-role/")
    /\ \E i \in 1..Len(returned) : StartsWith(returned[i].RoleName, "cdk-hnb659fds")
    /\ \E i \in 1..Len(returned) : returned[i].RoleName \in Range(exclude_roles)

Occurrences(name) ==
    LET RECURSIVE count(_, _)
        count(q, n) == IF Len(q) = 0 THEN n
                       ELSE count(Tail(q), IF Head(q) = name THEN n + 1 ELSE n)
        RECURSIVE total(_)
        total(i) == IF i > Len(WrittenRoleNames) THEN 0
                    ELSE count(WrittenRoleNames[i], 0) + total(i + 1)
    IN  total(1)

\* C10: when a run of role discovery has ended, list_iam_roles has returned
\* normally, and every role the listing returned that matches no exclusion, is
\* not a stack's role and whose details get_role returned is written exactly once
C10_EveryEligibleRoleWrittenOnce ==
    (script \in RoleScripts /\ dPc \in {"done", "crashed"}) =>
        /\ dPc = "done"
        /\ \A i \in 1..Len(returned) :
               (/\ ~MatchesExclusion(returned[i])
                /\ returned[i].RoleName \notin PhysicalIds("AWS::IAM::Role")
                /\ returned[i].RoleName \notin get_role_failed)
               => Occurrences(returned[i].RoleName) = 1

(***************************************************************************)
(* Properties of the functions of iam_cdk_app_stack.py.                    *)
(***************************************************************************)
\* the position, in the configuration as written, of the role whose trust
\* statements were built last
BuiltFrom == IF stackPc = "error" /\ raised # "ValueError" THEN idx ELSE idx - 1

ExternalIdKey == "sts:ExternalId"

\* C11: the statements built for a role are one per configured trust statement,
\* in order; with a non-empty externalIds each carries StringEquals
\* sts:ExternalId equal to that list and keeps every other condition operator
\* and key; without externalIds each carries exactly its configured conditions
C11_ExternalIdsInjected ==
    (variant = "stack" /\ BuiltFrom >= 1) =>
        LET role == file.roles[BuiltFrom]
            configured == role.trustPolicy.Statement.list
            external_ids == Get(role, "externalIds", <<>>)
            built == assume_role_policy_statements
        IN  /\ Len(built) = Len(configured)
            /\ \A i \in 1..Len(configured) :
                 LET conf == Get(configured[i], "Condition", EmptyDict)
                     c == built[i].conditions
                 IN  IF Len(external_ids) = 0 THEN c = conf
                     ELSE /\ DOMAIN c = DOMAIN conf \cup {"StringEquals"}
                          /\ ExternalIdKey \in DOMAIN c.StringEquals
                          /\ c.StringEquals[ExternalIdKey] = L(external_ids)
                          /\ \A op \in DOMAIN c :
                               DOMAIN c[op] = DOMAIN Get(conf, op, EmptyDict)
                                              \cup (IF op = "StringEquals" THEN {ExternalIdKey} ELSE {})
                          /\ \A op \in DOMAIN conf : \A k \in DOMAIN conf[op] :
                               (op # "StringEquals" \/ k # ExternalIdKey) => c[op][k] = conf[op][k]

\* two statements built for a role with two external ids, the first of which
\* had conditions of its own
C11_Witness ==
    /\ variant = "stack"
    /\ BuiltFrom >= 1
    /\ Len(Get(file.roles[BuiltFrom], "externalIds", <<>>)) = 2
    /\ Len(assume_role_policy_statements) = 2
    /\ "Bool" \in DOMAIN assume_role_policy_statements[1].conditions
    /\ "aws:PrincipalOrgID" \in DOMAIN assume_role_policy_statements[1].conditions.StringEquals
    /\ DOMAIN assume_role_policy_statements[2].conditions = {"StringEquals"}

\* the values listed under one principal type, a scalar counting as one value
PrincipalValues(v) ==
    IF IsList(v) THEN v.list ELSE IF IsInt(v) THEN <<IntStr(v.int)>> ELSE <<v.str>>

\* the single-purpose entry expected for a value of a principal type
ExpectedPrincipal(type, value) ==
    IF type = "AWS" /\ isdigit(value) THEN "AWS" :> S("arn:aws:iam::" \o value \o ":root")
    ELSE type :> S(value)

\* C12: the principals built for a statement are one single-purpose entry per
\* principal value (service principal, account-root ARN for a value of digits,
\* ARN principal otherwise), and no value listed under any principal type of
\* the statement is without an entry
C12_EveryPrincipalValueHasEntry ==
    (variant = "stack" /\ BuiltFrom >= 1) =>
        LET configured == file.roles[BuiltFrom].trustPolicy.Statement.list
            built == assume_role_policy_statements
        IN  \A i \in 1..Len(configured) :
              LET section == Get(configured[i], "Principal", EmptyDict) IN
              /\ \A type \in DOMAIN section : \A value \in Range(PrincipalValues(section[type])) :
                     ExpectedPrincipal(type, value) \in Range(built[i].principals)
              /\ \A j \in 1..Len(built[i].principals) :
                     \E type \in DOMAIN section : \E value \in Range(PrincipalValues(section[type])) :
                         built[i].principals[j] = ExpectedPrincipal(type, value)

\* the boundary ARN a role entry configures under either spelling of the key
ConfiguredBoundary(role) ==
    IF "permissionBoundary" \in DOMAIN role THEN <<role.permissionBoundary>>
    ELSE IF "permissionsBoundary" \in DOMAIN role THEN <<role.permissionsBoundary>>
    ELSE <<>>

ProvisionedBoundary(resource) ==
    IF "PermissionsBoundary" \in DOMAIN resource.Properties
    THEN <<resource.Properties.PermissionsBoundary>> ELSE <<>>

\* C13: a role configured with a boundary ARN under permissionBoundary or
\* permissionsBoundary is provisioned with exactly that ARN as its permissions
\* boundary, and a role with neither key with none
C13_BoundaryUnderEitherKey ==
    \A i \in 1..Len(resources) :
        ProvisionedBoundary(resources[i]) = ConfiguredBoundary(file.roles[i])

\* the {name, document} pairs an inlinePolicies value lists, in either form
InlinePairs(config) ==
    IF "dict" \in DOMAIN config
    THEN {<<n, config.dict[n]>> : n \in DOMAIN config.dict}
    ELSE {<<config.list[i].policyName, config.list[i].policyDocument>> : i \in 1..Len(config.list)}

EmbeddedPolicies(resource) == Get(resource.Properties, "Policies", EmptyDict)

\* C14: a mapping from policy name to document and a list of
\* {policyName, policyDocument} entries with the same names and documents
\* yield the same embedded inline policies
C14_InlineFormsAgree ==
    \A i \in 1..Len(resources) : \A j \in 1..Len(resources) :
        (/\ "inlinePolicies" \in DOMAIN file.roles[i]
         /\ "inlinePolicies" \in DOMAIN file.roles[j]
         /\ "dict" \in DOMAIN file.roles[i].inlinePolicies
         /\ "list" \in DOMAIN file.roles[j].inlinePolicies
         /\ InlinePairs(file.roles[i].inlinePolicies) = InlinePairs(file.roles[j].inlinePolicies))
        => EmbeddedPolicies(resources[i]) = EmbeddedPolicies(resources[j])

\* a policy document that is null or empty
NullOrEmpty(doc) == DOMAIN doc = {"null"} \/ DOMAIN doc = {}

\* the role entry lists inline policies and every one of them has a null or
\* empty document
AllInlineSkipped(role) ==
    /\ "inlinePolicies" \in DOMAIN role
    /\ InlinePairs(role.inlinePolicies) # {}
    /\ \A pair \in InlinePairs(role.inlinePolicies) : NullOrEmpty(pair[2])

\* C15: an inline policy entry with a null or empty document is skipped without
\* an error, and a role all of whose entries are skipped is created with no
\* Policies property
C15_EmptyInlineSkipped ==
    \A i \in 1..Len(file.roles) :
        AllInlineSkipped(file.roles[i]) =>
            /\ (stackPc = "error" /\ idx = i) => raised \notin {"TypeError", "KeyError"}
            /\ i <= Len(resources) => "Policies" \notin DOMAIN resources[i].Properties

(***************************************************************************)
(* Properties of app.py over documents that carry region, stack_name and   *)
(* iam_policies.                                                           *)
(***************************************************************************)
\* the iam_policies lists of the first n files that name account a, concatenated
RECURSIVE PoliciesOfAccount(_, _)
PoliciesOfAccount(a, n) ==
    IF n = 0 THEN <<>>
    ELSE PoliciesOfAccount(a, n - 1)
         \o (IF a \in NamedAccounts(files[n]) THEN Get(files[n], "iam_policies", <<>>) ELSE <<>>)

\* C16: the combined configuration handed to the stack of an account holds
\* every iam_policies entry of every file that names the account, once per
\* occurrence and in file order
C16_PoliciesConcatenated ==
    \A k \in 1..Len(stacks) :
        Get(stacks[k], "iam_policies", <<>>) = PoliciesOfAccount(stacks[k].account_id, Len(files))

FilesNaming(a) == {i \in 1..Len(files) : a \in NamedAccounts(files[i])}
StackNamesFor(a) == {files[i].stack_name : i \in {j \in FilesNaming(a) : "stack_name" \in DOMAIN files[j]}}
RECURSIVE RolesOfFiles(_, _)
RolesOfFiles(chosen, n) ==
    IF n = 0 THEN <<>>
    ELSE RolesOfFiles(chosen, n - 1) \o (IF n \in chosen THEN Get(files[n], "roles", <<>>) ELSE <<>>)

\* C17: files are combined into one stack only if they share account_id and
\* stack_name: when all stacks are created, the files that name an account
\* under different stack_name values have a stack each, which holds the roles
\* of the files of that stack_name only
C17_StacksPerStackName ==
    appPc = "synth" =>
        \A a \in Accounts : \A name \in StackNamesFor(a) :
            \E k \in 1..Len(stacks) :
                /\ stacks[k].account_id = a
                /\ stacks[k].roles =
                       RolesOfFiles({i \in FilesNaming(a) : Get(files[i], "stack_name", name) = name}, Len(files))
                /\ Cardinality(StackNamesFor(a)) > 1 =>
                       \E m \in 1..Len(stacks) : m # k /\ stacks[m].account_id = a

DefaultRegion == "us-east-1"

\* C18: the stack of an account is created in the region given by the
\* configuration that names the account, and in us-east-1 only when the
\* configuration gives none
C18_RegionFromConfiguration ==
    \A k \in 1..Len(stacks) :
        \A region \in {"us-east-1", "eu-west-1"} :
            (\A i \in FilesNaming(stacks[k].account_id) : Get(files[i], "region", DefaultRegion) = region)
            => stacks[k].env.region = region

\* the role entries written by a run of role discovery
EmittedRoleEntries ==
    IF script \in RoleScripts
    THEN UNION {Range(written[i].content.roles) : i \in 1..Len(written)}
    ELSE {}

\* C19: every role emitted by role discovery carries the ARNs of all managed
\* policies attached to it (managedPolicies) and all its inline policies by
\* name (inlinePolicies), whenever the role has any
C19_EmittedRolesCarryPolicies ==
    \A entry \in EmittedRoleEntries :
        LET provider == ProviderRole(entry.roleName)
            attached == Get(provider, "AttachedPolicies", <<>>)
            inline == Get(provider, "RolePolicies", EmptyDict)
        IN  /\ Len(attached) > 0 =>
                /\ "managedPolicies" \in DOMAIN entry
                /\ Range(entry.managedPolicies) = {attached[i].PolicyArn : i \in 1..Len(attached)}
            /\ DOMAIN inline # {} =>
                /\ "inlinePolicies" \in DOMAIN entry
                /\ DOMAIN entry.inlinePolicies = DOMAIN inline

\* the value an emitted role entry holds for its boundary, under either key
EmittedBoundary(entry) ==
    IF "permissionBoundary" \in DOMAIN entry THEN <<entry.permissionBoundary>>
    ELSE IF "permissionsBoundary" \in DOMAIN entry THEN <<entry.permissionsBoundary>>
    ELSE <<>>

\* C20: for every discovered role that has a permissions boundary, the emitted
\* entry holds the boundary as an ARN string, and the role that
\* IamRoleConfigStack provisions from that entry has that ARN as its
\* permissions boundary
C20_BoundaryRoundTrip ==
    \A entry \in EmittedRoleEntries :
        LET provider == ProviderRole(entry.roleName) IN
        "PermissionsBoundary" \in DOMAIN provider =>
            /\ EmittedBoundary(entry) = <<S(provider.PermissionsBoundary.PermissionsBoundaryArn)>>
            /\ ProvisionedBoundary([Properties |-> RolePropertiesBackup(entry, EmptyDict)])
                   = <<provider.PermissionsBoundary.PermissionsBoundaryArn>>

(***************************************************************************)
(* Shape of the tags the discovery scripts emit.                           *)
(***************************************************************************)
\* the policy entries written by the run
EmittedPolicyEntries ==
    IF script \in PolicyScripts
    THEN UNION {Range(written[i].content.iam_policies) : i \in 1..Len(written)}
    ELSE {}

ProviderPolicyNamed(name) ==
    iamPolicies[CHOOSE i \in 1..Len(iamPolicies) : iamPolicies[i].PolicyName = name]

\* one {key, value} entry per provider tag, in order
KeyValueTags(provider_tags) ==
    [i \in 1..Len(provider_tags) |-> [key |-> provider_tags[i].Key, value |-> provider_tags[i].Value]]

\* C21: the tags of every emitted role and of every emitted managed policy are
\* the provider's tags as a list of {key, value} entries, one per provider
\* tag, in order
C21_TagsAreKeyValueEntries ==
    /\ \A entry \in EmittedRoleEntries :
           "tags" \in DOMAIN entry =>
               entry.tags = KeyValueTags(Get(ProviderRole(entry.roleName), "Tags", <<>>))
    /\ \A entry \in EmittedPolicyEntries :
           "tags" \in DOMAIN entry =>
               entry.tags = KeyValueTags(Get(ProviderPolicyNamed(entry.policyName), "Tags", <<>>))

(***************************************************************************)
(* Tags of the provisioned roles.                                          *)
(***************************************************************************)
ConfiguredTags(role) ==
    LET tags == Get(role, "tags", <<>>) IN
    {[Key |-> tags[i].key, Value |-> tags[i].value] : i \in 1..Len(tags)}

ProvisionedTags(resource) == Get(resource.Properties, "Tags", {})

DistinctTagKeys(role) ==
    LET tags == Get(role, "tags", <<>>) IN
    \A i, j \in 1..Len(tags) : tags[i].key = tags[j].key => i = j

MaxCalls == 2        \* calls of append_to_yaml_file in one run
MaxBatch == 2        \* roles in the list given to one call

D(d) == [dict |-> d]
IsDict(v) == "dict" \in DOMAIN v

YAMLError == [error |-> "YAMLError"]
Absent == [kind |-> "absent"]
Unreadable == [kind |-> "unreadable"]
Text(loaded, cleaned_loaded) == [kind |-> "text", safe_load |-> loaded, cleaned |-> cleaned_loaded]

\* yaml.dump / yaml.safe_dump of a document of mappings, lists and scalars:
\* a text without Python tags that loads as the document
Dumped(doc) == Text(doc, doc)

\* the truth value of a document, for `yaml.safe_load(f) or default`
Falsy(doc) == doc \in {None, D(EmptyDict), L(<<>>), S(""), N(0)}
Or(doc, default) == IF Falsy(doc) THEN default ELSE doc

Batches == SeqsUpTo({RoleA, RoleB}, MaxBatch)

FileHeader == [account_id |-> L(<<Account>>), region |-> S("us-east-1")]

\* what the output file of appendnewscript may hold before a run
ExistingFiles ==
    { Absent,
      Text(YAMLError, YAMLError),
      Dumped(None),
      Dumped(D(FileHeader @@ [roles |-> L(<<>>)])),
      Dumped(D(FileHeader @@ [roles |-> L(<<RoleB>>)])),
      Dumped(D([account_id |-> L(<<Account>>), region |-> S("eu-west-1"),
                stack_name |-> S("iam-roles"), roles |-> L(<<RoleB, RoleA>>)])),
      Dumped(D(FileHeader)),
      Dumped(D(FileHeader @@ [roles |-> None])),
      Dumped(L(<<RoleA>>)) }

appendnewscript_yaml_file_name(account_id) == "iamrole-" \o account_id \o ".yaml"

\* lines 213-216: existing_content.setdefault('roles', []) and
\* existing_content['roles'].extend(new_roles_data)
ExtendRolesOfFile(existing_content, new_roles_data) ==
    LET with_roles == IF "roles" \in DOMAIN existing_content.dict THEN existing_content.dict
                      ELSE Put(existing_content.dict, "roles", L(<<>>))
    IN  D(Put(with_roles, "roles", L(with_roles.roles.list \o new_roles_data)))

\* lines 213-216 raise AttributeError when existing_content has no setdefault
\* or its roles value has no extend
CanExtendRoles(existing_content) ==
    /\ IsDict(existing_content)
    /\ "roles" \in DOMAIN existing_content.dict => IsList(existing_content.dict.roles)

\* appendnewscript.append_to_yaml_file(new_roles_data, account_id), lines 189-223
append_to_yaml_file ==
    /\ program = "appendnewscript"
    /\ fPc = "ready"
    /\ Len(calls) < MaxCalls
    /\ \E new_roles_data \in Batches :
           LET yaml_file_name == appendnewscript_yaml_file_name(Account)
               on_disk == disk[yaml_file_name]
               existing_content ==
                   IF on_disk.kind = "absent"
                   THEN D([account_id |-> L(<<Account>>), region |-> S("us-east-1"), roles |-> L(<<>>)])
                   ELSE Or(on_disk.safe_load, D(EmptyDict))
           IN  /\ calls' = Append(calls, new_roles_data)
               /\ IF on_disk.kind = "text" /\ on_disk.safe_load = YAMLError
                  THEN UNCHANGED <<disk, fPc>>
                  ELSE IF ~CanExtendRoles(existing_content)
                  THEN fPc' = "raised" /\ UNCHANGED disk
                  ELSE /\ disk' = [disk EXCEPT ![yaml_file_name] =
                                      Dumped(ExtendRolesOfFile(existing_content, new_roles_data))]
                       /\ UNCHANGED fPc
    /\ UNCHANGED <<program, original>>
    /\ UNCHANGED <<stackVars, appVars, discVars>>

\* append.py: the files the user names
source_file == "new-roles.yaml"
target_file == "iamrole-" \o Account \o ".yaml"

SourceFiles ==
    { Absent,
      Unreadable,
      Text(YAMLError, YAMLError),
      Dumped(None),
      Dumped(L(<<>>)),
      Dumped(L(<<RoleA>>)),
      Dumped(L(<<RoleB, RoleA>>)),
      Dumped(D([roles |-> L(<<RoleA>>)])),
      Dumped(S("RoleA")) }

\* the target may also hold lines with the tag of collections.OrderedDict,
\* which yaml.safe_load rejects; without them it may or may not load
TargetFiles ==
    ExistingFiles \cup
    { Dumped(D(FileHeader @@ [roles |-> S("RoleA")])),
      Dumped(D(FileHeader @@ [roles |-> D([roleName |-> S("RoleA")])])),
      Dumped(S("roles")),
      Text(YAMLError, D(FileHeader @@ [roles |-> L(<<RoleB>>)])),
      Text(YAMLError, D(FileHeader)),
      Text(YAMLError, L(<<L(<<S("roles"), L(<<RoleB>>)>>)>>)) }

\* clean_yaml_file (lines 8-32): the path of the temporary file, or None; the
\* temporary file holds the lines without the tag
temp_file_path(file_path) == file_path \o ".tmp"
clean_yaml_file(on_disk) ==
    IF on_disk.kind = "text" THEN <<Text(on_disk.cleaned, on_disk.cleaned)>> ELSE <<>>

\* lines 64-88 writing the target whatever the type of its roles value
TargetAfterAppend_NoTypeCheck(cleaned, source_content) ==
    LET existing_content == Or(cleaned.safe_load, D(EmptyDict)) IN
    IF cleaned.safe_load = YAMLError \/ ~IsDict(existing_content) THEN <<>>
    ELSE IF ~IsList(source_content) THEN <<>>
    ELSE LET old == Get(existing_content.dict, "roles", L(<<>>)) IN
         <<Dumped(D(Put(existing_content.dict, "roles",
                        L((IF IsList(old) THEN old.list ELSE <<>>) \o source_content.list))))>>

\* lines 64-88: what is written to the target, if anything.  A YAMLError of
\* safe_load, and the TypeError of `existing_content['roles'] = []` on a
\* document that is not a mapping, are caught on lines 91-96
TargetAfterAppend(cleaned, source_content) ==
    LET existing_content == Or(cleaned.safe_load, D(EmptyDict)) IN
    IF cleaned.safe_load = YAMLError \/ ~IsDict(existing_content) THEN <<>>
    ELSE LET with_roles == IF "roles" \in DOMAIN existing_content.dict THEN existing_content.dict
                           ELSE Put(existing_content.dict, "roles", L(<<>>))
         IN  IF ~IsList(with_roles.roles) THEN <<>>
             ELSE IF ~IsList(source_content) THEN <<>>
             ELSE <<Dumped(D(Put(with_roles, "roles", L(with_roles.roles.list \o source_content.list))))>>

\* append.append_yaml_content(source_file, target_file), lines 34-96
append_yaml_content ==
    /\ program = "append"
    /\ fPc = "ready"
    /\ calls = <<>>
    /\ calls' = << <<source_file, target_file>> >>
    /\ LET source == disk[source_file]
           target == disk[target_file]
       IN  IF source.kind # "text" \/ source.safe_load = YAMLError
           THEN UNCHANGED disk
           ELSE LET source_content == Or(source.safe_load, L(<<>>))
                    cleaned_target_file == clean_yaml_file(target)
                IN  IF cleaned_target_file = <<>>
                    THEN UNCHANGED disk
                    ELSE LET written_target == TargetAfterAppend(cleaned_target_file[1], source_content) IN
                         disk' = [disk EXCEPT
                                     ![temp_file_path(target_file)] = cleaned_target_file[1],
                                     ![target_file] = IF written_target = <<>> THEN @ ELSE written_target[1]]
    /\ UNCHANGED <<program, original, fPc>>
    /\ UNCHANGED <<stackVars, appVars, discVars>>

\* one run of an appender on a disk
InitFiles ==
    /\ \/ /\ program = "appendnewscript"
          /\ disk \in [{appendnewscript_yaml_file_name(Account)} -> ExistingFiles]
       \/ /\ program = "append"
          /\ disk \in {f \in [{source_file, target_file, temp_file_path(target_file)} ->
                                 SourceFiles \cup TargetFiles] :
                          /\ f[source_file] \in SourceFiles
                          /\ f[target_file] \in TargetFiles
                          /\ f[temp_file_path(target_file)] = Absent}
    /\ original = disk
    /\ calls = <<>>
    /\ fPc = "ready"
    /\ StackIdle
    /\ AppIdle
    /\ DiscoveryIdle

NextFiles ==
    \/ append_to_yaml_file
    \/ append_yaml_content

SpecFiles == InitFiles /\ [][NextFiles]_vars

(***************************************************************************)
(* Properties of the file appenders.                                       *)
(***************************************************************************)
\* the roles list a file holds, if it holds one
RolesListOf(on_disk) ==
    IF /\ on_disk.kind = "text"
       /\ IsDict(on_disk.safe_load)
       /\ "roles" \in DOMAIN on_disk.safe_load.dict
       /\ IsList(on_disk.safe_load.dict.roles)
    THEN <<on_disk.safe_load.dict.roles.list>>
    ELSE <<>>

RolesOriginallyIn(on_disk) ==
    IF RolesListOf(on_disk) = <<>> THEN <<>> ELSE RolesListOf(on_disk)[1]

\* C23: after the calls of append_to_yaml_file made so far, a file that did not
\* exist holds account_id [account], region us-east-1 and the appended batches
\* in call order; a file that could not be parsed is unchanged; any other file
\* holds as roles list its original roles, in their order, followed by the
\* batches in call order
C23_AppendKeepsAndExtends ==
    program = "appendnewscript" =>
        LET yaml_file_name == appendnewscript_yaml_file_name(Account)
            first == original[yaml_file_name]
            now == disk[yaml_file_name]
        IN  IF calls = <<>> THEN now = first
            ELSE IF first.kind = "absent"
            THEN now = Dumped(D([account_id |-> L(<<Account>>), region |-> S("us-east-1"),
                                 roles |-> L(Flatten(calls))]))
            ELSE IF first.safe_load = YAMLError THEN now = first
            ELSE RolesListOf(now) = <<RolesOriginallyIn(first) \o Flatten(calls)>>

\* C23 for the files append_to_yaml_file can extend
C23_WellFormedFile ==
    program = "appendnewscript" =>
        LET yaml_file_name == appendnewscript_yaml_file_name(Account)
            first == original[yaml_file_name]
        IN  (first.kind = "text" /\ first.safe_load # YAMLError
                /\ ~CanExtendRoles(Or(first.safe_load, D(EmptyDict))))
            \/ C23_AppendKeepsAndExtends

\* what append_yaml_content reads: the source document, an empty or null one
\* counting as the empty list (line 45), and the target's document once the
\* lines clean_yaml_file skips are left out, an empty one counting as {}
SourceContentOf(on_disk) == Or(on_disk.safe_load, L(<<>>))
PreviousContentOf(on_disk) == Or(on_disk.cleaned, D(EmptyDict))

SourceAborts(on_disk) ==
    \/ on_disk.kind # "text"
    \/ on_disk.safe_load = YAMLError
    \/ ~IsList(SourceContentOf(on_disk))

TargetRolesNotAList(on_disk) ==
    /\ on_disk.kind = "text"
    /\ IsDict(PreviousContentOf(on_disk))
    /\ "roles" \in DOMAIN PreviousContentOf(on_disk).dict
    /\ ~IsList(PreviousContentOf(on_disk).dict.roles)

TargetUsable(on_disk) ==
    /\ on_disk.kind = "text"
    /\ on_disk.cleaned # YAMLError
    /\ IsDict(PreviousContentOf(on_disk))
    /\ ~TargetRolesNotAList(on_disk)

\* C24: after append_yaml_content the target file is unchanged when the source
\* is missing, unreadable, unparsable or not a list, and when the target's
\* roles value is not a list; when none of these holds and the target holds a
\* mapping, the target's roles are its previous roles followed by the source
\* list and its other top-level keys are as before
C24_AppendYamlContentFrame ==
    (program = "append" /\ calls # <<>>) =>
        LET source == original[source_file]
            target == original[target_file]
            now == disk[target_file]
        IN  /\ (SourceAborts(source) \/ TargetRolesNotAList(target)) => now = target
            /\ (~SourceAborts(source) /\ TargetUsable(target)) =>
                   LET previous == PreviousContentOf(target).dict
                       previous_roles == IF "roles" \in DOMAIN previous THEN previous.roles.list ELSE <<>>
                   IN  /\ now.kind = "text"
                       /\ IsDict(now.safe_load)
                       /\ RolesListOf(now) = <<previous_roles \o SourceContentOf(source).list>>
                       /\ Del(now.safe_load.dict, "roles") = Del(previous, "roles")

\* a list of two roles has been appended to a target that held one role and
\* other keys
C24_Witness ==
    /\ program = "append"
    /\ calls # <<>>
    /\ ~SourceAborts(original[source_file])
    /\ Len(SourceContentOf(original[source_file]).list) = 2
    /\ RolesListOf(original[target_file]) = << <<RoleB>> >>
    /\ RolesListOf(disk[target_file]) = << <<RoleB, RoleB, RoleA>> >>

\* an abort on the target's roles value: the source is a list of roles, the
\* target's roles is a string, and the call has returned
C24_AbortReached ==
    /\ program = "append"
    /\ calls # <<>>
    /\ ~SourceAborts(original[source_file])
    /\ TargetRolesNotAList(original[target_file])

(***************************************************************************)
(* cdkImportAutomationScript1.main on accounts large enough to split the   *)
(* output: the run has fetched the details of every role and policy and is *)
(* about to write.                                                         *)
(***************************************************************************)
MaxChunks == 2       \* the resource counts go up to MaxChunks full files
Near == 1            \* and lie within Near of a multiple of max_resources_per_file

ResourceCounts ==
    {n \in 0..(MaxChunks * max_resources_per_file + Near) :
        \E k \in 0..MaxChunks : \E d \in 0..Near :
            n = k * max_resources_per_file - d \/ n = k * max_resources_per_file + d}

LargeAccountRoles(n) == [i \in 1..n |-> IamRole("Role" \o IntStr(i), "/")]
LargeAccountPolicies(n) == [i \in 1..n |-> IamPolicy("Policy" \o IntStr(i), "/")]

InitSplit ==
    /\ script = "cdkImportAutomationScript1"
    /\ \E n \in ResourceCounts : iamRoles = LargeAccountRoles(n)
    /\ \E n \in ResourceCounts : iamPolicies = LargeAccountPolicies(n)
    /\ cfStacks = <<>>
    /\ first_run = <<>>
    /\ main_account_id = Account
    /\ dPc = "write"
    /\ returned = iamRoles
    /\ get_role_failed = {}
    /\ listed = Map(SelectSeq(returned, script1_keep), RoleRef)
    /\ cf_stack_roles = <<>>
    /\ roles_data = Map(SelectSeq(returned, script1_keep), RoleState)
    /\ cf_policy_arns = <<>>
    /\ customer_managed_policies = Map(iamPolicies, PolicyRef)
    /\ policies_data = Map(iamPolicies, LAMBDA policy : PolicyState(policy, TRUE))
    /\ written = <<>>
    /\ StackIdle
    /\ AppIdle
    /\ FilesIdle

SpecSplit == InitSplit /\ [][script1_write]_vars

\* the resources the run has to write, as build_full_yaml_structure lists them
FullStructure == build_full_yaml_structure(Account, "us-east-1", roles_data, policies_data)

WrittenPolicies == Flatten([i \in 1..Len(written) |-> written[i].content.iam_policies])
WrittenRoles == Flatten([i \in 1..Len(written) |-> written[i].content.roles])

\* C25: the policies of the output files, file after file, are the policies of
\* the full structure in their order, and so for the roles (each resource is
\* in exactly one file, in its original relative order); no file holds more
\* than max_resources_per_file resources; the run writes one file when roles
\* plus policies are at most max_resources_per_file and more than one
\* otherwise
C25_SplitPartitions ==
    (script = "cdkImportAutomationScript1" /\ dPc = "done" /\ written # <<>>) =>
        /\ WrittenPolicies = FullStructure.iam_policies
        /\ WrittenRoles = FullStructure.roles
        /\ \A i \in 1..Len(written) :
               Len(written[i].content.iam_policies) + Len(written[i].content.roles)
                   <= max_resources_per_file
        /\ (Len(roles_data) + Len(policies_data) > max_resources_per_file) <=> (Len(written) > 1)

\* three files, the middle one holding both policies and roles
C25_Witness ==
    /\ script = "cdkImportAutomationScript1"
    /\ dPc = "done"
    /\ Len(written) = 3
    /\ written[2].content.iam_policies # <<>>
    /\ written[2].content.roles # <<>>

\* C26: the first output file has the original file name and stack_name, the
\* k-th file after it has the suffix -Part{k} on both; the file names are
\* pairwise distinct, and so are the stack_name values; every file carries the
\* account_id and the region of the full structure
C26_SplitNames ==
    (script = "cdkImportAutomationScript1" /\ dPc = "done" /\ written # <<>>) =>
        /\ written[1].name = "iamrole-policies-" \o Account \o ".yaml"
        /\ written[1].content.stack_name = FullStructure.stack_name
        /\ \A k \in 1..(Len(written) - 1) :
               /\ written[k + 1].name = "iamrole-policies-" \o Account \o "-Part" \o IntStr(k) \o ".yaml"
               /\ written[k + 1].content.stack_name = FullStructure.stack_name \o "-Part" \o IntStr(k)
        /\ \A i, j \in 1..Len(written) :
               i # j => /\ written[i].name # written[j].name
                        /\ written[i].content.stack_name # written[j].content.stack_name
        /\ \A i \in 1..Len(written) :
               /\ written[i].content.account_id = FullStructure.account_id
               /\ written[i].content.region = FullStructure.region

\* a run that wrote a first file and two files after it
C26_Witness ==
    /\ script = "cdkImportAutomationScript1"
    /\ dPc = "done"
    /\ Len(written) >= 3
    /\ written[3].content.stack_name = "iam-role-policies-pipeline-stack-Part2"

(***************************************************************************)
(* Role names within one stack.                                            *)
(***************************************************************************)
\* C27: no two role resources of the stack have the same RoleName; a stack is
\* built to the end only from a role list with pairwise distinct roleNames,
\* and a role whose roleName an earlier role of the list has is never added
C27_RoleNamesUniqueInStack ==
    /\ \A i, j \in RoleResources :
           i # j => resources[i].Properties.RoleName # resources[j].Properties.RoleName
    /\ stackPc = "done" => DistinctRoleNames(file.roles)
    /\ \A k \in 1..Len(file.roles) :
           (\E i \in 1..(k - 1) : file.roles[i].roleName = file.roles[k].roleName)
               => Len(resources) < k

\* the second role of the list repeats the roleName of the first, which has
\* been created, and the constructor has ended with the error
C27_Witness ==
    /\ Len(file.roles) = 2
    /\ file.roles[1].roleName = file.roles[2].roleName
    /\ Len(resources) = 1
    /\ idx = 2
    /\ stackPc = "error"
    /\ raised = "RuntimeError"

(***************************************************************************)
(* Rejection of a role without a list of trust statements.                 *)
(***************************************************************************)
\* the role's trustPolicy is absent, has no Statement, or has a Statement that
\* is not a list
NoStatementList(role) ==
    \/ "trustPolicy" \notin DOMAIN role
    \/ "Statement" \notin DOMAIN role.trustPolicy
    \/ ~IsList(role.trustPolicy.Statement)

C30_EntriesUnchanged ==
    roles = file.roles

(***************************************************************************)
(* Two runs of a role discovery script on the same account.  The files the *)
(* first run wrote are on disk when the second run starts.                 *)
(***************************************************************************)
\* what a run got from the provider and made of it
RunAnswers ==
    <<main_account_id, returned, get_role_failed, listed, cf_stack_roles, roles_data, cf_policy_arns,
      customer_managed_policies, policies_data>>

\* main is started again after a run that ended, normally or in a traceback
StartSecondRun ==
    /\ script \in RoleScripts
    /\ dPc \in {"done", "crashed"}
    /\ first_run = <<>>
    /\ first_run' = << [answers |-> RunAnswers, ended |-> dPc, written |-> written] >>
    /\ dPc' = "get_account_id"
    /\ main_account_id' = ""
    /\ returned' = <<>>
    /\ get_role_failed' = {}
    /\ listed' = <<>>
    /\ cf_stack_roles' = <<>>
    /\ roles_data' = <<>>
    /\ cf_policy_arns' = <<>>
    /\ customer_managed_policies' = <<>>
    /\ policies_data' = <<>>
    /\ UNCHANGED <<script, iamRoles, cfStacks, iamPolicies, written>>
    /\ UNCHANGED <<stackVars, appVars, fileVars>>

InitRerun ==
    /\ \/ /\ script = "appendnewscript"
          /\ iamRoles \in SubSeqs(RoleUniverse)
          /\ cfStacks \in {<<>>, StackUniverse}
          /\ iamPolicies = <<>>
       \/ /\ script = "cdkImportAutomationScript1"
          /\ iamRoles \in SubSeqs(RoleUniverse)
          /\ cfStacks \in {<<>>, StackUniverse}
          /\ iamPolicies \in {<<>>, <<AppPolicy>>}
    /\ first_run = <<>>
    /\ main_account_id = ""
    /\ dPc = "get_account_id"
    /\ returned = <<>>
    /\ get_role_failed = {}
    /\ listed = <<>>
    /\ cf_stack_roles = <<>>
    /\ roles_data = <<>>
    /\ cf_policy_arns = <<>>
    /\ customer_managed_policies = <<>>
    /\ policies_data = <<>>
    /\ written = <<>>
    /\ StackIdle
    /\ AppIdle
    /\ FilesIdle

NextRerun ==
    \/ get_account_id
    \/ script1_list_iam_roles
    \/ script1_list_cf_stack_roles
    \/ script1_get_iam_role_state
    \/ script1_list_cf_stack_policies
    \/ script1_list_customer_managed_policies
    \/ script1_get_policy_details
    \/ script1_write
    \/ appendnewscript_list_iam_roles
    \/ appendnewscript_list_cf_stack_roles
    \/ appendnewscript_write
    \/ StartSecondRun

SpecRerun == InitRerun /\ [][NextRerun]_vars

RolesLists(files_on_disk) == [i \in 1..Len(files_on_disk) |-> files_on_disk[i].content.roles]

====
